---- MODULE Spec2Model ----
(***************************************************************************)
(* Model of the openscreen network address layer: IPAddress / IPEndpoint   *)
(* (platform/base/ip_address.{h,cc}) and the POSIX socket-address adapter  *)
(* (platform/impl/socket_address_posix.cc).                                *)
(*                                                                         *)
(* Text is a sequence of one-character strings.  An ErrorOr<T> is a record *)
(* [ok, code, value].  An IPAddress is [version, bytes, scope_id] with     *)
(* bytes the 16-byte storage array (for kV4 only the first 4 are read).    *)
(***************************************************************************)
EXTENDS Integers, Sequences, FiniteSets, TLC

VARIABLES
  os,        \* the interfaces the OS knows: set of [name, index]
  text,      \* the text handed to IPAddress::Parse / IPEndpoint::Parse
  addr,      \* ErrorOr<IPAddress> returned by IPAddress::Parse(text)
  shown,     \* text written by operator<<
  again,     \* ErrorOr<IPAddress> returned by parsing shown
  ep,        \* ErrorOr<IPEndpoint> returned by IPEndpoint::Parse(text)
  epAgain,   \* ErrorOr<IPEndpoint> returned by parsing shown
  lhs, rhs,  \* two IPEndpoint values under comparison
  verdict,   \* results of the comparison operators on lhs, rhs
  subject,   \* IPEndpoint given to the socket-address adapter
  native,    \* native socket-address structure
  decoded,   \* result of SocketAddressPosix(const sockaddr&)
  netmask_bytes,  \* raw netmask bytes handed to ToPrefixLength
  prefix_length,  \* what ToPrefixLength(netmask_bytes) came to
  link_local,     \* what subject.address.IsLinkLocal() returned
  interfaces,     \* the getifaddrs list handed to ProcessInterfacesList
  cur,            \* position of the walk in interfaces
  results,        \* std::vector<InterfaceInfo> results
  ioctls,         \* ioctl requests issued so far, in order
  pc         \* position of the caller

vars == <<os, text, addr, shown, again, ep, epAgain, lhs, rhs, verdict,
          subject, native, decoded, netmask_bytes, prefix_length, link_local,
          interfaces, cur, results, ioctls, pc>>

----------------------------------------------------------------------------
(* Characters and std::string_view helpers *)

HexLower == <<"0","1","2","3","4","5","6","7","8","9","a","b","c","d","e","f">>

HexUpper == <<"0","1","2","3","4","5","6","7","8","9","A","B","C","D","E","F">>

\* Value of a digit character, 99 when the character is no digit at all.
DigitValue(c) ==
  IF \E i \in 1..16 : HexLower[i] = c \/ HexUpper[i] = c
    THEN (CHOOSE i \in 1..16 : HexLower[i] = c \/ HexUpper[i] = c) - 1
    ELSE 99

RemovePrefix(s, n) == SubSeq(s, n + 1, Len(s))

\* std::string_view::find / rfind of one character: 1-based position, 0 = npos.
Find(s, c) ==
  IF \E i \in 1..Len(s) : s[i] = c
    THEN CHOOSE i \in 1..Len(s) : s[i] = c /\ \A j \in 1..(i-1) : s[j] # c
    ELSE 0

RFind(s, c) ==
  IF \E i \in 1..Len(s) : s[i] = c
    THEN CHOOSE i \in 1..Len(s) : s[i] = c /\ \A j \in (i+1)..Len(s) : s[j] # c
    ELSE 0

DoubleColonAt(s, i) == i >= 1 /\ i < Len(s) /\ s[i] = ":" /\ s[i+1] = ":"

FindDoubleColon(s) ==
  IF \E i \in 1..Len(s) : DoubleColonAt(s, i)
    THEN CHOOSE i \in 1..Len(s) :
           DoubleColonAt(s, i) /\ \A j \in 1..(i-1) : ~DoubleColonAt(s, j)
    ELSE 0

RFindDoubleColon(s) ==
  IF \E i \in 1..Len(s) : DoubleColonAt(s, i)
    THEN CHOOSE i \in 1..Len(s) :
           DoubleColonAt(s, i) /\ \A j \in (i+1)..Len(s) : ~DoubleColonAt(s, j)
    ELSE 0

CountChar(s, c) == Cardinality({i \in 1..Len(s) : s[i] = c})

----------------------------------------------------------------------------
(* std::from_chars *)

\* Digits of the largest value of the target type, most significant first.
UInt8MaxDec == <<2,5,5>>

UInt16MaxHex == <<15,15,15,15>>

UInt32MaxDec == <<4,2,9,4,9,6,7,2,9,5>>

IntMaxDec == <<2,1,4,7,4,8,3,6,4,7>>

IntMinDec == <<2,1,4,7,4,8,3,6,4,8>>

\* Number of leading characters of s that are digits in the base.
DigitRunLen(s, base) ==
  IF \E i \in 1..Len(s) : DigitValue(s[i]) >= base
    THEN (CHOOSE i \in 1..Len(s) :
            DigitValue(s[i]) >= base /\ \A j \in 1..(i-1) : DigitValue(s[j]) < base) - 1
    ELSE Len(s)

RECURSIVE StripZeros(_)
StripZeros(d) ==
  IF Len(d) > 0 /\ d[1] = 0 THEN StripZeros(Tail(d)) ELSE d

\* d > m for digit sequences without leading zeros.
DigitsExceed(d, m) ==
  \/ Len(d) > Len(m)
  \/ /\ Len(d) = Len(m)
     /\ \E i \in 1..Len(d) : d[i] > m[i] /\ \A j \in 1..(i-1) : d[j] = m[j]

RECURSIVE DigitsValue(_, _)
DigitsValue(d, base) ==
  IF d = <<>> THEN 0
  ELSE DigitsValue(SubSeq(d, 1, Len(d) - 1), base) * base + d[Len(d)]

\* from_chars(first, last, value, base): the pattern is an optional '-' (signed
\* types only) followed by a non-empty run of digits.  ec is "ok",
\* "invalid_argument" or "result_out_of_range"; len is ptr - first.
FromChars(s, base, maxDigits, minDigits, signed) ==
  LET neg  == signed /\ Len(s) > 0 /\ s[1] = "-"
      body == IF neg THEN Tail(s) ELSE s
      n    == DigitRunLen(body, base)
      digs == StripZeros([i \in 1..n |-> DigitValue(body[i])])
      used == IF neg THEN n + 1 ELSE n
  IN  IF n = 0
        THEN [ec |-> "invalid_argument", value |-> 0, len |-> 0]
      ELSE IF DigitsExceed(digs, IF neg THEN minDigits ELSE maxDigits)
        THEN [ec |-> "result_out_of_range", value |-> 0, len |-> used]
      ELSE [ec |-> "ok",
            value |-> IF neg THEN 0 - DigitsValue(digs, base)
                             ELSE DigitsValue(digs, base),
            len |-> used]

----------------------------------------------------------------------------
(* IPAddress *)

Zeros(n) == [i \in 1..n |-> 0]

NoAddress == [version |-> "none", bytes |-> Zeros(16), scope_id |-> 0]

Failure(code) == [ok |-> FALSE, code |-> code, value |-> NoAddress]

Success(v) == [ok |-> TRUE, code |-> "kNone", value |-> v]

\* IPAddress(uint8_t b1, b2, b3, b4): the rest of bytes_ is value-initialised.
IPAddressV4(b1, b2, b3, b4) ==
  [version |-> "kV4", bytes |-> <<b1, b2, b3, b4>> \o Zeros(12), scope_id |-> 0]

\* IPAddress(std::span<const uint16_t, 8> hextets)
IPAddressV6(h) ==
  [version |-> "kV6",
   bytes |-> [i \in 1..16 |-> IF i % 2 = 1 THEN h[(i + 1) \div 2] \div 256
                                           ELSE h[i \div 2] % 256],
   scope_id |-> 0]

size(a) == IF a.version = "kV4" THEN 4 ELSE 16

IsV4(a) == a.version = "kV4"

IsV6(a) == a.version = "kV6"

\* IsLinkLocal comparing the whole second byte, as for fe80::/16.
IsLinkLocal_WholeSecondByte(a) ==
  IF ~IsV6(a) THEN FALSE
  ELSE a.bytes[1] = 254 /\ a.bytes[2] = 128

\* (bytes_[0] == 0xfe) && ((bytes_[1] & 0xc0) == 0x80)
IsLinkLocal(a) ==
  IF ~IsV6(a) THEN FALSE
  ELSE a.bytes[1] = 254 /\ (a.bytes[2] \div 64) = 2

GetScopeId(a) == a.scope_id

----------------------------------------------------------------------------
(* Parsing *)

\* The scanning loop of ParseV4: [ok, octets, rest of the text].
RECURSIVE ParseV4Loop(_, _, _)
ParseV4Loop(s, i, octets) ==
  IF i = 4 THEN [ok |-> TRUE, octets |-> octets, rest |-> s]
  ELSE IF i > 0 /\ (s = <<>> \/ s[1] # ".")
    THEN [ok |-> FALSE, octets |-> octets, rest |-> s]
  ELSE LET s1 == IF i > 0 THEN RemovePrefix(s, 1) ELSE s
           r  == FromChars(s1, 10, UInt8MaxDec, UInt8MaxDec, FALSE)
       IN  IF r.ec # "ok" THEN [ok |-> FALSE, octets |-> octets, rest |-> s1]
           ELSE ParseV4Loop(RemovePrefix(s1, r.len), i + 1, Append(octets, r.value))

\* ParseV4 without the check that nothing follows the fourth octet.
ParseV4_IgnoresTrailing(s) ==
  LET r == ParseV4Loop(s, 0, <<>>)
  IN  IF ~r.ok THEN Failure("kInvalidIPV4Address")
      ELSE Success(IPAddressV4(r.octets[1], r.octets[2], r.octets[3], r.octets[4]))

ParseV4(s) ==
  LET r == ParseV4Loop(s, 0, <<>>)
  IN  IF ~r.ok THEN Failure("kInvalidIPV4Address")
      ELSE IF r.rest # <<>> THEN Failure("kInvalidIPV4Address")
      ELSE Success(IPAddressV4(r.octets[1], r.octets[2], r.octets[3], r.octets[4]))

RECURSIVE ZeroGroups(_)
\* while (--num_zero_groups_to_insert > 0) expanded << "0:";  expanded << '0';
ZeroGroups(n) ==
  IF n - 1 > 0 THEN <<"0", ":">> \o ZeroGroups(n - 1) ELSE <<"0">>

\* ExpandIPv6DoubleColon counting the zero groups as if nothing ever
\* followed the "::".
ExpandIPv6DoubleColon_MiscountsSuffix(s) ==
  LET pos == FindDoubleColon(s)
      num_single_colons == CountChar(s, ":") - 2
      atStart == pos = 1
      atEnd   == pos = Len(s) - 1
      n == (8 - num_single_colons) - (IF atStart THEN 0 ELSE 1)
  IN  IF pos = 0 THEN s
      ELSE IF pos # RFindDoubleColon(s) THEN <<>>
      ELSE (IF atStart THEN <<>> ELSE SubSeq(s, 1, pos))
           \o ZeroGroups(n)
           \o (IF atEnd THEN <<>> ELSE SubSeq(s, pos + 1, Len(s)))

ExpandIPv6DoubleColon(s) ==
  LET pos == FindDoubleColon(s)
      num_single_colons == CountChar(s, ":") - 2
      atStart == pos = 1
      atEnd   == pos = Len(s) - 1
      n == (8 - num_single_colons) - (IF atStart THEN 0 ELSE 1)
                                   - (IF atEnd THEN 0 ELSE 1)
  IN  IF pos = 0 THEN s
      ELSE IF pos # RFindDoubleColon(s) THEN <<>>
      ELSE (IF atStart THEN <<>> ELSE SubSeq(s, 1, pos))
           \o ZeroGroups(n)
           \o (IF atEnd THEN <<>> ELSE SubSeq(s, pos + 1, Len(s)))

\* if_nametoindex: the index of the interface of that name, 0 when there is none.
if_nametoindex(table, name) ==
  IF \E r \in table : r.name = name
    THEN (CHOOSE r \in table : r.name = name).index
    ELSE 0

RECURSIVE ParseV6Loop(_, _, _)
ParseV6Loop(s, i, hextets) ==
  IF i = 8
    THEN IF s # <<>> THEN Failure("kInvalidIPV6Address")
         ELSE Success(IPAddressV6(hextets))
  ELSE IF i > 0 /\ (s = <<>> \/ s[1] # ":")
    THEN Failure("kInvalidIPV6Address")
  ELSE LET s1 == IF i > 0 THEN RemovePrefix(s, 1) ELSE s
           r  == FromChars(s1, 16, UInt16MaxHex, UInt16MaxHex, FALSE)
       IN  IF r.ec # "ok" THEN Failure("kInvalidIPV6Address")
           ELSE ParseV6Loop(RemovePrefix(s1, r.len), i + 1, Append(hextets, r.value))

\* The scope id ParseV6 derives from the text after '%'.
\* The zone read as a decimal number first, as an interface name second.
ParseScope_DecimalFirst(table, scope_name) ==
  LET byName == if_nametoindex(table, scope_name)
      r == FromChars(scope_name, 10, UInt32MaxDec, UInt32MaxDec, FALSE)
  IN  IF r.ec = "ok" /\ r.len = Len(scope_name) /\ r.value > 0 THEN r.value
      ELSE byName

ParseScope(table, scope_name) ==
  LET byName == if_nametoindex(table, scope_name)
      r == FromChars(scope_name, 10, UInt32MaxDec, UInt32MaxDec, FALSE)
  IN  IF byName # 0 THEN byName
      ELSE IF r.ec = "ok" /\ r.len = Len(scope_name) /\ r.value > 0 THEN r.value
      ELSE 0

\* ParseV6 attaching the scope id without asking IsLinkLocal().
ParseV6_ScopeOnAnyAddress(table, s) ==
  LET scope_pos == Find(s, "%")
      address_part == IF scope_pos # 0 THEN SubSeq(s, 1, scope_pos - 1) ELSE s
      scope_id == IF scope_pos # 0 THEN ParseScope(table, RemovePrefix(s, scope_pos))
                  ELSE 0
      scanned == ParseV6Loop(ExpandIPv6DoubleColon(address_part), 0, <<>>)
  IN  IF scope_pos # 0 /\ scope_id = 0 THEN Failure("kInvalidIPV6Address")
      ELSE IF ~scanned.ok THEN scanned
      ELSE IF scope_id # 0
        THEN Success([scanned.value EXCEPT !.scope_id = scope_id])
      ELSE scanned

ParseV6(table, s) ==
  LET scope_pos == Find(s, "%")
      address_part == IF scope_pos # 0 THEN SubSeq(s, 1, scope_pos - 1) ELSE s
      scope_id == IF scope_pos # 0 THEN ParseScope(table, RemovePrefix(s, scope_pos))
                  ELSE 0
      scanned == ParseV6Loop(ExpandIPv6DoubleColon(address_part), 0, <<>>)
  IN  IF scope_pos # 0 /\ scope_id = 0 THEN Failure("kInvalidIPV6Address")
      ELSE IF ~scanned.ok THEN scanned
      ELSE IF scope_id # 0
        THEN IF ~IsLinkLocal(scanned.value) THEN Failure("kInvalidIPV6Address")
             ELSE Success([scanned.value EXCEPT !.scope_id = scope_id])
      ELSE scanned

Parse(table, s) ==
  LET v4 == ParseV4(s) IN IF v4.ok THEN v4 ELSE ParseV6(table, s)

----------------------------------------------------------------------------
(* IPEndpoint::Parse *)

NoEndpoint == [address |-> NoAddress, port |-> 0]

EndpointError(reason) ==
  [ok |-> FALSE, code |-> "kParseError", reason |-> reason, value |-> NoEndpoint]

EndpointValue(a, p) ==
  [ok |-> TRUE, code |-> "kNone", reason |-> "", value |-> [address |-> a, port |-> p]]

UInt16Max == 65535

\* IPEndpoint::Parse accepting either grammar inside the brackets.
IPEndpointParse_AnyGrammarInBrackets(table, s) ==
  LET colon_pos == RFind(s, ":")
      bracketed == s[1] = "[" /\ s[colon_pos - 1] = "]"
      address   == IF bracketed THEN Parse(table, SubSeq(s, 2, colon_pos - 2))
                   ELSE ParseV4(SubSeq(s, 1, colon_pos - 1))
      port_part == RemovePrefix(s, colon_pos)
      result    == FromChars(port_part, 10, IntMaxDec, IntMinDec, TRUE)
  IN  IF colon_pos = 0 THEN EndpointError("missing colon separator")
      ELSE IF colon_pos = 1 THEN EndpointError("missing address before colon")
      ELSE IF colon_pos = Len(s) THEN EndpointError("missing port after colon")
      ELSE IF ~address.ok THEN EndpointError("invalid address part")
      ELSE IF \/ result.ec # "ok"
              \/ result.len # Len(port_part)
              \/ result.value < 0
              \/ result.value > UInt16Max
        THEN EndpointError("invalid port part")
      ELSE EndpointValue(address.value, result.value)

\* The characters std::isspace accepts that the inputs use.
WhitespaceChars == {" ", "\t", "\n"}

RECURSIVE SkipWhitespace(_)
SkipWhitespace(s) ==
  IF s # <<>> /\ s[1] \in WhitespaceChars THEN SkipWhitespace(Tail(s)) ELSE s

\* IPEndpoint::Parse reading the port the way strtol does, skipping the
\* whitespace in front of the number.
IPEndpointParse_PortSkipsWhitespace(table, s) ==
  LET colon_pos == RFind(s, ":")
      bracketed == s[1] = "[" /\ s[colon_pos - 1] = "]"
      address   == IF bracketed THEN ParseV6(table, SubSeq(s, 2, colon_pos - 2))
                   ELSE ParseV4(SubSeq(s, 1, colon_pos - 1))
      port_part == SkipWhitespace(RemovePrefix(s, colon_pos))
      result    == FromChars(port_part, 10, IntMaxDec, IntMinDec, TRUE)
  IN  IF colon_pos = 0 THEN EndpointError("missing colon separator")
      ELSE IF colon_pos = 1 THEN EndpointError("missing address before colon")
      ELSE IF colon_pos = Len(s) THEN EndpointError("missing port after colon")
      ELSE IF ~address.ok THEN EndpointError("invalid address part")
      ELSE IF \/ result.ec # "ok"
              \/ result.len # Len(port_part)
              \/ result.value < 0
              \/ result.value > UInt16Max
        THEN EndpointError("invalid port part")
      ELSE EndpointValue(address.value, result.value)

\* IPEndpoint::Parse testing for a missing port before a missing address.
IPEndpointParse_PortCheckedFirst(table, s) ==
  LET colon_pos == RFind(s, ":")
      bracketed == s[1] = "[" /\ s[colon_pos - 1] = "]"
      address   == IF bracketed THEN ParseV6(table, SubSeq(s, 2, colon_pos - 2))
                   ELSE ParseV4(SubSeq(s, 1, colon_pos - 1))
      port_part == RemovePrefix(s, colon_pos)
      result    == FromChars(port_part, 10, IntMaxDec, IntMinDec, TRUE)
  IN  IF colon_pos = 0 THEN EndpointError("missing colon separator")
      ELSE IF colon_pos = Len(s) THEN EndpointError("missing port after colon")
      ELSE IF colon_pos = 1 THEN EndpointError("missing address before colon")
      ELSE IF ~address.ok THEN EndpointError("invalid address part")
      ELSE IF \/ result.ec # "ok"
              \/ result.len # Len(port_part)
              \/ result.value < 0
              \/ result.value > UInt16Max
        THEN EndpointError("invalid port part")
      ELSE EndpointValue(address.value, result.value)

IPEndpointParse(table, s) ==
  LET colon_pos == RFind(s, ":")
      bracketed == s[1] = "[" /\ s[colon_pos - 1] = "]"
      address   == IF bracketed THEN ParseV6(table, SubSeq(s, 2, colon_pos - 2))
                   ELSE ParseV4(SubSeq(s, 1, colon_pos - 1))
      port_part == RemovePrefix(s, colon_pos)
      result    == FromChars(port_part, 10, IntMaxDec, IntMinDec, TRUE)
  IN  IF colon_pos = 0 THEN EndpointError("missing colon separator")
      ELSE IF colon_pos = 1 THEN EndpointError("missing address before colon")
      ELSE IF colon_pos = Len(s) THEN EndpointError("missing port after colon")
      ELSE IF ~address.ok THEN EndpointError("invalid address part")
      ELSE IF \/ result.ec # "ok"
              \/ result.len # Len(port_part)
              \/ result.value < 0
              \/ result.value > UInt16Max
        THEN EndpointError("invalid port part")
      ELSE EndpointValue(address.value, result.value)

----------------------------------------------------------------------------
(* Comparison operators *)

\* memcmp(x, y, n) < 0, = 0, > 0 as -1, 0, 1.
RECURSIVE memcmp(_, _, _)
memcmp(x, y, n) ==
  IF n = 0 THEN 0
  ELSE IF x[1] < y[1] THEN 0 - 1
  ELSE IF x[1] > y[1] THEN 1
  ELSE memcmp(Tail(x), Tail(y), n - 1)

\* IPAddress::operator==
IPAddressEq(a, o) ==
  /\ a.version = o.version
  /\ \A i \in 1..size(a) : a.bytes[i] = o.bytes[i]
  /\ a.scope_id = o.scope_id

\* Version::kV4 < Version::kV6 (enum order)
VersionRank(v) == IF v = "kV4" THEN 0 ELSE 1

\* operator< without the scope-id tie-break.
IPAddressLess_NoScopeTieBreak(a, other) ==
  IF a.version # other.version
    THEN VersionRank(a.version) < VersionRank(other.version)
  ELSE IF IsV4(a) THEN memcmp(a.bytes, other.bytes, 4) < 0
  ELSE memcmp(a.bytes, other.bytes, 16) < 0

\* IPAddress::operator<
IPAddressLess(a, other) ==
  IF a.version # other.version
    THEN VersionRank(a.version) < VersionRank(other.version)
  ELSE IF IsV4(a) THEN memcmp(a.bytes, other.bytes, 4) < 0
  ELSE LET cmp == memcmp(a.bytes, other.bytes, 16)
       IN  IF cmp # 0 THEN cmp < 0 ELSE a.scope_id < other.scope_id

IPAddressGreater(a, other) == IPAddressLess(other, a)

\* operator==(const IPEndpoint&, const IPEndpoint&)
IPEndpointEq(a, b) == IPAddressEq(a.address, b.address) /\ a.port = b.port

\* operator< deciding by the port before the address.
IPEndpointLess_PortFirst(a, b) ==
  IF a.port # b.port THEN a.port < b.port
  ELSE IPAddressLess(a.address, b.address)

\* operator<(const IPEndpoint&, const IPEndpoint&)
IPEndpointLess(a, b) ==
  IF ~IPAddressEq(a.address, b.address) THEN IPAddressLess(a.address, b.address)
  ELSE a.port < b.port

----------------------------------------------------------------------------
(* Formatting *)

\* operator<< of an integer under the stream's basefield (lowercase digits).
RECURSIVE FormatInt(_, _)
FormatInt(n, base) ==
  IF n < base THEN <<HexLower[n + 1]>>
  ELSE FormatInt(n \div base, base) \o <<HexLower[(n % base) + 1]>>

\* std::setw(width) with std::setfill('0') << std::right
SetW(digits, width) ==
  IF Len(digits) < width
    THEN [i \in 1..(width - Len(digits)) |-> "0"] \o digits
    ELSE digits

\* if_indextoname: the name of the interface of that index, or no result.
if_indextoname(table, index) ==
  IF \E r \in table : r.index = index
    THEN [ok |-> TRUE, ifname |-> (CHOOSE r \in table : r.index = index).name]
    ELSE [ok |-> FALSE, ifname |-> <<>>]

RECURSIVE StreamBytes(_, _, _, _, _, _)
StreamBytes(bytes, i, base, separator, values_per_separator, value_width) ==
  IF i > Len(bytes) THEN <<>>
  ELSE (IF i - 1 > 0 /\ (i - 1) % values_per_separator = 0
          THEN <<separator>> ELSE <<>>)
       \o SetW(FormatInt(bytes[i], base), value_width)
       \o StreamBytes(bytes, i + 1, base, separator, values_per_separator, value_width)

\* operator<< without std::setw: the bytes of a V6 address are not padded.
StreamAddress_NoPadding(table, address) ==
  LET basefield == IF IsV4(address) THEN 10 ELSE 16
      separator == IF IsV4(address) THEN "." ELSE ":"
      values_per_separator == IF IsV4(address) THEN 1 ELSE 2
      bytes == SubSeq(address.bytes, 1, size(address))
      named == if_indextoname(table, GetScopeId(address))
  IN  StreamBytes(bytes, 1, basefield, separator, values_per_separator, 0)
      \o (IF IsLinkLocal(address) /\ GetScopeId(address) # 0
            THEN IF named.ok THEN <<"%">> \o named.ifname
                 ELSE <<"%">> \o FormatInt(GetScopeId(address), basefield)
            ELSE <<>>)

\* operator<<(std::ostream&, const IPAddress&).  The basefield set for the
\* bytes (std::dec / std::hex) stays in force for the scope id.
StreamAddress(table, address) ==
  LET basefield == IF IsV4(address) THEN 10 ELSE 16
      separator == IF IsV4(address) THEN "." ELSE ":"
      values_per_separator == IF IsV4(address) THEN 1 ELSE 2
      value_width == IF IsV4(address) THEN 0 ELSE 2
      bytes == SubSeq(address.bytes, 1, size(address))
      named == if_indextoname(table, GetScopeId(address))
  IN  StreamBytes(bytes, 1, basefield, separator, values_per_separator, value_width)
      \o (IF IsLinkLocal(address) /\ GetScopeId(address) # 0
            THEN IF named.ok THEN <<"%">> \o named.ifname
                 ELSE <<"%">> \o FormatInt(GetScopeId(address), basefield)
            ELSE <<>>)

\* operator<<(std::ostream&, const IPEndpoint&) / IPEndpoint::ToString
EndpointToString(table, endpoint) ==
  (IF IsV6(endpoint.address) THEN <<"[">> ELSE <<>>)
  \o StreamAddress(table, endpoint.address)
  \o (IF IsV6(endpoint.address) THEN <<"]">> ELSE <<>>)
  \o <<":">> \o FormatInt(endpoint.port, 10)

----------------------------------------------------------------------------
(* Further IPAddress constructors *)

\* IPAddress(Version version, std::span<const uint8_t> bytes): copies size()
\* bytes; for kV4 the other 12 bytes of bytes_ are left uninitialised, so
\* their content (junk) is whatever the storage held.
IPAddressFromSpan(version, bytes, junk) ==
  [version |-> version,
   bytes |-> IF version = "kV4" THEN SubSeq(bytes, 1, 4) \o junk
             ELSE SubSeq(bytes, 1, 16),
   scope_id |-> 0]

\* IPAddress(std::span<const uint8_t, 16> bytes, uint32_t scope_id)
IPAddressV6Scoped(bytes, scope_id) ==
  [version |-> "kV6", bytes |-> bytes, scope_id |-> scope_id]

----------------------------------------------------------------------------
(* Native socket addresses.  Multi-byte fields kept in network byte order   *)
(* are modelled by their bytes in memory.                                   *)

htons(port) == <<port \div 256, port % 256>>

ntohs(mem) == mem[1] * 256 + mem[2]

NoSockAddr == [family |-> "none"]

\* ToSockAddrIn without its OSP_CHECK: the first four bytes of any address
\* go into the V4 shape.
ToSockAddrIn_Unchecked(endpoint) ==
  [family |-> "AF_INET",
   sin_port |-> htons(endpoint.port),
   sin_addr |-> SubSeq(endpoint.address.bytes, 1, 4),
   sin_zero |-> Zeros(8)]

\* ToSockAddrIn: struct sockaddr_in out{} is zero-initialised.
ToSockAddrIn(endpoint) ==
  IF ~IsV4(endpoint.address) THEN [family |-> "fatal"]
  ELSE [family |-> "AF_INET",
        sin_port |-> htons(endpoint.port),
        sin_addr |-> SubSeq(endpoint.address.bytes, 1, 4),
        sin_zero |-> Zeros(8)]

\* ToSockAddrIn6 copying the scope id whatever the address is.
ToSockAddrIn6_AlwaysWritesScope(endpoint) ==
  IF ~IsV6(endpoint.address) THEN [family |-> "fatal"]
  ELSE [family |-> "AF_INET6",
        sin6_port |-> htons(endpoint.port),
        sin6_flowinfo |-> 0,
        sin6_addr |-> SubSeq(endpoint.address.bytes, 1, 16),
        sin6_scope_id |-> GetScopeId(endpoint.address)]

\* ToSockAddrIn6
ToSockAddrIn6(endpoint) ==
  IF ~IsV6(endpoint.address) THEN [family |-> "fatal"]
  ELSE [family |-> "AF_INET6",
        sin6_port |-> htons(endpoint.port),
        sin6_flowinfo |-> 0,
        sin6_addr |-> SubSeq(endpoint.address.bytes, 1, 16),
        sin6_scope_id |->
          IF IsLinkLocal(endpoint.address) /\ GetScopeId(endpoint.address) # 0
            THEN GetScopeId(endpoint.address) ELSE 0]

\* GetIPAddressFromSockAddr(const sockaddr_in&)
GetIPAddressFromSockAddrIn(sa, junk) ==
  IPAddressFromSpan("kV4", sa.sin_addr, junk)

\* GetIPAddressFromSockAddr(const sockaddr_in6&)
GetIPAddressFromSockAddrIn6(sa) ==
  IPAddressV6Scoped(sa.sin6_addr, sa.sin6_scope_id)

\* SocketAddressPosix(const IPEndpoint&): the native structure it holds.
SocketAddressPosixFromEndpoint(endpoint) ==
  IF IsV4(endpoint.address) THEN ToSockAddrIn(endpoint)
  ELSE ToSockAddrIn6(endpoint)

\* SocketAddressPosix(const sockaddr&) with RecomputeEndpoint(version): the
\* endpoint it holds, or "fatal" (OSP_NOTREACHED) for any other family.
SocketAddressPosixFromSockAddr(sa, junk) ==
  IF sa.family = "AF_INET"
    THEN [fatal |-> FALSE,
          endpoint |-> [address |-> GetIPAddressFromSockAddrIn(sa, junk),
                        port |-> ntohs(sa.sin_port)]]
  ELSE IF sa.family = "AF_INET6"
    THEN [fatal |-> FALSE,
          endpoint |-> [address |-> GetIPAddressFromSockAddrIn6(sa),
                        port |-> ntohs(sa.sin6_port)]]
  ELSE [fatal |-> TRUE, endpoint |-> NoEndpoint]

----------------------------------------------------------------------------
(* Network interface enumerator: ToPrefixLength.  A failed OSP_CHECK ends   *)
(* the process: [fatal |-> TRUE].                                           *)

\* while (i < netmask.size() && netmask[i] == 0xff) ++i;  the i reached.
RECURSIVE LeadingFullBytes(_, _)
LeadingFullBytes(netmask, i) ==
  IF i < Len(netmask) /\ netmask[i + 1] = 255
    THEN LeadingFullBytes(netmask, i + 1) ELSE i

\* while (last_byte & 0x80) { ++result; last_byte <<= 1; } on a uint8_t:
\* [count of rounds, last_byte left over].
RECURSIVE ShiftOutOnes(_, _)
ShiftOutOnes(last_byte, count) ==
  IF last_byte >= 128 THEN ShiftOutOnes((last_byte * 2) % 256, count + 1)
  ELSE [count |-> count, last_byte |-> last_byte]

\* ToPrefixLength that drops the bits of the first byte that is not 0xFF.
ToPrefixLength_WholeBytesOnly(netmask) ==
  LET i == LeadingFullBytes(netmask, 0)
      intermediate == i < Len(netmask) /\ netmask[i + 1] # 0
      shifted == ShiftOutOnes(netmask[i + 1], 0)
      j == IF intermediate THEN i + 1 ELSE i
  IN  IF intermediate /\ shifted.last_byte # 0 THEN [fatal |-> TRUE, value |-> 0]
      ELSE IF \E k \in (j + 1)..Len(netmask) : netmask[k] # 0
        THEN [fatal |-> TRUE, value |-> 0]
      ELSE [fatal |-> FALSE, value |-> (8 * i) % 256]

\* ToPrefixLength doing what its comment says, returning 0 for a netmask
\* with a hole.
ToPrefixLength_ZeroOnHole(netmask) ==
  LET i == LeadingFullBytes(netmask, 0)
      intermediate == i < Len(netmask) /\ netmask[i + 1] # 0
      shifted == ShiftOutOnes(netmask[i + 1], 0)
      j == IF intermediate THEN i + 1 ELSE i
      result == (((8 * i) % 256) + (IF intermediate THEN shifted.count ELSE 0)) % 256
  IN  IF intermediate /\ shifted.last_byte # 0 THEN [fatal |-> FALSE, value |-> 0]
      ELSE IF \E k \in (j + 1)..Len(netmask) : netmask[k] # 0
        THEN [fatal |-> FALSE, value |-> 0]
      ELSE [fatal |-> FALSE, value |-> result]

\* uint8_t ToPrefixLength(std::span<const uint8_t> netmask)
ToPrefixLength(netmask) ==
  LET i == LeadingFullBytes(netmask, 0)
      intermediate == i < Len(netmask) /\ netmask[i + 1] # 0
      shifted == ShiftOutOnes(netmask[i + 1], 0)
      j == IF intermediate THEN i + 1 ELSE i
      result == (((8 * i) % 256) + (IF intermediate THEN shifted.count ELSE 0)) % 256
  IN  IF intermediate /\ shifted.last_byte # 0 THEN [fatal |-> TRUE, value |-> 0]
      ELSE IF \E k \in (j + 1)..Len(netmask) : netmask[k] # 0
        THEN [fatal |-> TRUE, value |-> 0]
      ELSE [fatal |-> FALSE, value |-> result]

----------------------------------------------------------------------------
(* Network interface enumerator: ProcessInterfacesList.  A record of the    *)
(* getifaddrs list is [ifa_name, running, loopback, ifa_addr, ifa_netmask,  *)
(* media, in6_flags]: running and loopback are the IFF_RUNNING and          *)
(* IFF_LOOPBACK bits of ifa_flags, ifa_addr and ifa_netmask are native      *)
(* structures (family "none" for a null pointer), and media and in6_flags   *)
(* are what the OS answers to SIOCGIFMEDIA and SIOCGIFAFLAG_IN6 if asked    *)
(* while the walk stands at this record.                                    *)

\* The filter without its test of ifa_addr.
Skipped_IgnoresMissingAddress(ifa) == ~ifa.running

\* !(IFF_RUNNING & cur->ifa_flags) || !cur->ifa_addr
Skipped(ifa) == ~ifa.running \/ ifa.ifa_addr.family = "none"

\* A lookup that never finds the name.
FindByName_NeverFinds(entries, name) == 0

\* std::find_if over results by name: 1-based position, 0 for results.end().
FindByName(entries, name) ==
  IF \E i \in 1..Len(entries) : entries[i].name = name
    THEN CHOOSE i \in 1..Len(entries) :
           entries[i].name = name /\ \A j \in 1..(i - 1) : entries[j].name # name
    ELSE 0

\* The classification testing IFM_ETHER before IFM_IEEE80211.
Classify_EthernetFirst(ifa) ==
  IF ifa.media.available
    THEN IF ~(ifa.media.avalid /\ ifa.media.active)
           THEN [kept |-> FALSE, type |-> "kOther"]
         ELSE IF ifa.media.ether THEN [kept |-> TRUE, type |-> "kEthernet"]
         ELSE IF ifa.media.ieee80211 THEN [kept |-> TRUE, type |-> "kWifi"]
         ELSE [kept |-> TRUE, type |-> "kOther"]
  ELSE IF ifa.loopback THEN [kept |-> TRUE, type |-> "kLoopback"]
  ELSE [kept |-> FALSE, type |-> "kOther"]

\* The media query and classification of a name not yet in results:
\* kept is FALSE where the code says continue.
Classify(ifa) ==
  IF ifa.media.available
    THEN IF ~(ifa.media.avalid /\ ifa.media.active)
           THEN [kept |-> FALSE, type |-> "kOther"]
         ELSE IF ifa.media.ieee80211 THEN [kept |-> TRUE, type |-> "kWifi"]
         ELSE IF ifa.media.ether THEN [kept |-> TRUE, type |-> "kEthernet"]
         ELSE [kept |-> TRUE, type |-> "kOther"]
  ELSE IF ifa.loopback THEN [kept |-> TRUE, type |-> "kLoopback"]
  ELSE [kept |-> FALSE, type |-> "kOther"]

kUnknownHardwareAddress == <<0, 0, 0, 0, 0, 0>>

\* results.emplace_back(if_nametoindex(cur->ifa_name),
\*                      kUnknownHardwareAddress, name, type, {})
NewInterfaceInfo(table, ifa, type) ==
  [index |-> if_nametoindex(table, ifa.ifa_name),
   hardware_address |-> kUnknownHardwareAddress,
   name |-> ifa.ifa_name,
   type |-> type,
   addresses |-> <<>>]

\* netmask_bytes filled from ifa_netmask whenever it is there.
NetmaskBytes_AnyFamily(ifa, family, n) ==
  IF ifa.ifa_netmask.family = "none" THEN Zeros(n)
  ELSE [i \in 1..n |-> IF i <= Len(ifa.ifa_netmask.bytes)
                         THEN ifa.ifa_netmask.bytes[i] ELSE 0]

\* netmask_bytes{} filled from ifa_netmask when it is there and of the
\* family of the address.
NetmaskBytes(ifa, family, n) ==
  IF ifa.ifa_netmask.family = family THEN ifa.ifa_netmask.bytes ELSE Zeros(n)

\* The test of IN6_IFF_DEPRECATED without the test of the ioctl's result.
SkippedInet6_DeprecatedOnly(ifa) == ifa.in6_flags = "deprecated"

\* ioctl(SIOCGIFAFLAG_IN6) != 0 || ifru_flags & IN6_IFF_DEPRECATED
SkippedInet6(ifa) == ifa.in6_flags \in {"failed", "deprecated"}

\* The part of the loop body after the InterfaceInfo pointer is set: what
\* the record adds to the entry.  [fatal, entry].
AddAddress(interface, ifa, junk) ==
  IF ifa.ifa_addr.family = "AF_LINK"
    THEN [fatal |-> FALSE,
          entry |-> [interface EXCEPT !.hardware_address = ifa.ifa_addr.lladdr]]
  ELSE IF ifa.ifa_addr.family = "AF_INET6"
    THEN IF SkippedInet6(ifa) THEN [fatal |-> FALSE, entry |-> interface]
         ELSE LET ip == GetIPAddressFromSockAddrIn6(ifa.ifa_addr)
                  prefix == ToPrefixLength(NetmaskBytes(ifa, "AF_INET6", 16))
              IN  IF prefix.fatal THEN [fatal |-> TRUE, entry |-> interface]
                  ELSE [fatal |-> FALSE,
                        entry |-> [interface EXCEPT !.addresses =
                                     Append(@, [address |-> ip,
                                                prefix_length |-> prefix.value])]]
  ELSE IF ifa.ifa_addr.family = "AF_INET"
    THEN LET ip == GetIPAddressFromSockAddrIn(ifa.ifa_addr, junk)
             prefix == ToPrefixLength(NetmaskBytes(ifa, "AF_INET", 4))
         IN  IF prefix.fatal THEN [fatal |-> TRUE, entry |-> interface]
             ELSE [fatal |-> FALSE,
                   entry |-> [interface EXCEPT !.addresses =
                                Append(@, [address |-> ip,
                                           prefix_length |-> prefix.value])]]
  ELSE [fatal |-> FALSE, entry |-> interface]

\* The loop body creating the entry of a new name only for a record that
\* adds something to it.
LoopBody_CreatesOnAddress(table, entries, ifa, junk) ==
  LET it == FindByName(entries, ifa.ifa_name)
      class == Classify(ifa)
      found == IF it = 0
                 THEN Append(entries, NewInterfaceInfo(table, ifa, class.type))
                 ELSE entries
      at == IF it = 0 THEN Len(found) ELSE it
      added == AddAddress(found[at], ifa, junk)
      adds == \/ ifa.ifa_addr.family \in {"AF_LINK", "AF_INET"}
              \/ ifa.ifa_addr.family = "AF_INET6" /\ ~SkippedInet6(ifa)
  IN  IF Skipped(ifa)
        THEN [fatal |-> FALSE, entries |-> entries, media |-> FALSE, in6 |-> FALSE]
      ELSE IF it = 0 /\ ~class.kept
        THEN [fatal |-> FALSE, entries |-> entries, media |-> TRUE, in6 |-> FALSE]
      ELSE IF it = 0 /\ ~adds
        THEN [fatal |-> FALSE, entries |-> entries, media |-> TRUE,
              in6 |-> ifa.ifa_addr.family = "AF_INET6"]
      ELSE [fatal |-> added.fatal,
            entries |-> IF added.fatal THEN found
                        ELSE [found EXCEPT ![at] = added.entry],
            media |-> it = 0,
            in6 |-> ifa.ifa_addr.family = "AF_INET6"]

\* One round of the for loop of ProcessInterfacesList on the record ifa of the list:
\* [fatal, entries, media (SIOCGIFMEDIA issued), in6 (SIOCGIFAFLAG_IN6
\* issued)].
LoopBody(table, entries, ifa, junk) ==
  LET it == FindByName(entries, ifa.ifa_name)
      class == Classify(ifa)
      found == IF it = 0
                 THEN Append(entries, NewInterfaceInfo(table, ifa, class.type))
                 ELSE entries
      at == IF it = 0 THEN Len(found) ELSE it
      added == AddAddress(found[at], ifa, junk)
  IN  IF Skipped(ifa)
        THEN [fatal |-> FALSE, entries |-> entries, media |-> FALSE, in6 |-> FALSE]
      ELSE IF it = 0 /\ ~class.kept
        THEN [fatal |-> FALSE, entries |-> entries, media |-> TRUE, in6 |-> FALSE]
      ELSE [fatal |-> added.fatal,
            entries |-> IF added.fatal THEN found
                        ELSE [found EXCEPT ![at] = added.entry],
            media |-> it = 0,
            in6 |-> ifa.ifa_addr.family = "AF_INET6"]

\* The ioctl requests one round of the loop issues.
Issued(step, ifa) ==
  (IF step.media THEN <<[request |-> "SIOCGIFMEDIA", name |-> ifa.ifa_name]>>
   ELSE <<>>)
  \o (IF step.in6 THEN <<[request |-> "SIOCGIFAFLAG_IN6", name |-> ifa.ifa_name]>>
      ELSE <<>>)

\* ProcessInterfacesList after the first n records of list: the loop stops
\* where a check of ToPrefixLength fails.  [fatal, entries, ioctls].
RECURSIVE WalkFrom(_, _, _, _)
WalkFrom(table, list, junk, n) ==
  IF n = 0 THEN [fatal |-> FALSE, entries |-> <<>>, ioctls |-> <<>>]
  ELSE LET before == WalkFrom(table, list, junk, n - 1)
           step == LoopBody(table, before.entries, list[n], junk)
       IN  IF before.fatal THEN before
           ELSE [fatal |-> step.fatal,
                 entries |-> step.entries,
                 ioctls |-> before.ioctls \o Issued(step, list[n])]

----------------------------------------------------------------------------
(* Bounded inputs *)

RECURSIVE Join(_, _)
Join(parts, sep) ==
  IF Len(parts) = 0 THEN <<>>
  ELSE IF Len(parts) = 1 THEN parts[1]
  ELSE parts[1] \o <<sep>> \o Join(Tail(parts), sep)

\* Largest number of dot-separated segments in an IPv4-like input.
MaxV4Groups == 5

\* Largest number of hextets written in an IPv6-like input.
MaxV6Groups == 9

\* Largest scope id given to the scope-id constructor or found in a
\* native IPv6 structure.
MaxScope == 2

CoreOctets == {<<>>, <<"7">>, <<"2","5","5">>, <<"2","5","6">>}

OddOctets ==
  {<<"0","0","7">>, <<"1","x">>, <<"-","1">>, <<"+","1">>, <<" ","1">>,
   <<"a">>, <<"0","0","0","0","0","0","0","0","0","0","9">>,
   <<"9","9","9","9","9","9","9","9","9","9","9">>}

V4Texts ==
  LET counts == 3..MaxV4Groups
  IN  {Join(f, ".") : f \in UNION {[1..k -> CoreOctets] : k \in counts}}
      \cup {Join([i \in 1..k |-> IF i = p THEN o ELSE <<"7">>], ".") :
              <<k, p, o>> \in {t \in counts \X (1..MaxV4Groups) \X OddOctets :
                                 t[2] <= t[1]}}

\* The hextet written at position i of a well-formed input: "11", "22", ...
GroupText(i) == FormatInt(i % 16, 16) \o FormatInt(i % 16, 16)

VariantGroups ==
  {<<>>, <<"0","0","0","0","1">>, <<"1","0","0","0","0">>, <<"g">>,
   <<"f","e","8","0">>, <<"F","E","B","F">>, <<"f","e","c","0">>,
   <<"0","0","0","1">>, <<"f","f","f","f">>, <<"-","1">>, <<"0","x","1">>}

\* a groups, "::", b groups; position p (if any) holds the group v instead.
DoubleColonText(a, b, p, v) ==
  LET g(i) == IF i = p THEN v ELSE GroupText(i)
  IN  Join([i \in 1..a |-> g(i)], ":") \o <<":", ":">>
      \o Join([i \in 1..b |-> g(a + i)], ":")

PlainText(k, p, v) ==
  Join([i \in 1..k |-> IF i = p THEN v ELSE GroupText(i)], ":")

V6Texts ==
  LET splits == {t \in (0..MaxV6Groups) \X (0..MaxV6Groups) :
                   t[1] + t[2] <= MaxV6Groups}
  IN  {DoubleColonText(t[1], t[2], 0, <<>>) : t \in splits}
      \cup {DoubleColonText(t[1][1], t[1][2], t[2], t[3]) :
              t \in {u \in splits \X (1..MaxV6Groups) \X VariantGroups :
                       u[2] <= u[1][1] + u[1][2]}}
      \cup {PlainText(k, 0, <<>>) : k \in 1..MaxV6Groups}
      \cup {PlainText(t[1], t[2], t[3]) :
              t \in {u \in (1..MaxV6Groups) \X (1..MaxV6Groups) \X VariantGroups :
                       u[2] <= u[1]}}

ZoneHosts ==
  {<<"f","e","8","0",":",":","1">>, <<":",":","1">>, <<"f","e","b","f",":",":">>,
   <<"f","e","c","0",":",":","1">>, <<"1",".","2",".","3",".","4">>,
   <<"f","e","8","0",":",":","1",":",":","2">>}

ZoneNames ==
  {<<"l","o">>, <<"2">>, <<"7">>, <<"1","6">>, <<"1","0">>, <<"0">>, <<>>,
   <<"x">>, <<"1","x">>, <<"+","1">>, <<"0","0","7">>, <<"l","o","%","1">>,
   <<"4","2","9","4","9","6","7","2","9","6">>, <<"1">>}

ZoneTexts == {h \o <<"%">> \o z : <<h, z>> \in ZoneHosts \X ZoneNames}

EndpointHosts ==
  {<<"1",".","2",".","3",".","4">>, <<"[","a","b","c","d",":",":","1","]">>,
   <<"a","b","c","d",":",":","1">>, <<"[","1",".","2",".","3",".","4","]">>,
   <<"[","]">>, <<"l","o","c","a","l","h","o","s","t">>, <<>>,
   <<"[",":",":","]">>, <<"[",":",":","1">>, <<":",":","1","]">>,
   <<"[","f","e","8","0",":",":","1","%","l","o","]">>,
   <<"[","f","e","8","0",":",":","1","%","1","6","]">>,
   <<"[",":",":","1","%","l","o","]">>,
   <<" ","1",".","2",".","3",".","4">>, <<"1",".","2",".","3",".","4"," ">>,
   <<"0","1",".","2",".","3",".","2","5","5">>,
   <<"[","f","e","8","0",":",":","]">>, <<"x">>}

PortTexts ==
  {<<>>, <<"y">>, <<"0">>, <<"9","9">>, <<"8","0","8","0">>, <<"6","5","5","3","5">>,
   <<"6","5","5","3","6">>, <<"-","0">>, <<"-","1">>, <<"+","1">>,
   <<"0","8","0">>, <<"8","a">>, <<" ","8","0">>, <<"8","0"," ">>,
   <<"9","9","9","9","9","9","9","9","9","9","9">>}

EndpointTexts ==
  {h \o <<":">> \o q : <<h, q>> \in EndpointHosts \X PortTexts}
  \cup {<<>>, <<"b","e","e","f">>, <<"1",".","2",".","3",".","4">>}

\* Endpoint texts that parse when the OS knows the interface "lo".
PlainEndpointTexts ==
  {<<"1",".","2",".","3",".","4",":","8","0">>,
   <<"[","a","b","c","d",":",":","1","]",":","8","0">>,
   <<"[","f","e","8","0",":",":","1","%","l","o","]",":","8","0">>,
   <<"[","f","e","8","0",":",":","1","%","1","6","]",":","8","0">>}

\* One whitespace character put at any position of such a text.
WhitespaceTexts ==
  {SubSeq(t[1], 1, t[2]) \o <<t[3]>> \o SubSeq(t[1], t[2] + 1, Len(t[1])) :
     t \in {u \in PlainEndpointTexts \X (0..15) \X WhitespaceChars :
              u[2] <= Len(u[1])}}

Texts ==
  V4Texts \cup V6Texts \cup ZoneTexts \cup EndpointTexts \cup WhitespaceTexts

NoInterfaces == {}

SomeInterfaces ==
  {[name |-> <<"l","o">>, index |-> 1],
   [name |-> <<"2">>, index |-> 7],
   [name |-> <<"e","0">>, index |-> 16]}

OSTables == {NoInterfaces, SomeInterfaces}

ByteVals == {0, 1, 255}

\* What the 12 unused bytes of a kV4 address may hold.
JunkTails == {Zeros(12), [i \in 1..12 |-> 170]}

V6Bytes(b1, b2, last) == <<b1, b2>> \o Zeros(13) \o <<last>>

V6Prefixes == {<<0, 0>>, <<254, 128>>, <<254, 192>>}

\* IPAddress values built through the public constructors.
AddressValues ==
  {IPAddressV4(t[1], 0, 0, t[2]) : t \in ByteVals \X ByteVals}
  \cup {IPAddressFromSpan("kV4", <<t[1], 0, 0, t[2]>>, t[3]) :
          t \in ByteVals \X ByteVals \X JunkTails}
  \cup {IPAddressV6(<<t[1][1] * 256 + t[1][2], 0, 0, 0, 0, 0, 0, t[2]>>) :
          t \in V6Prefixes \X {0, 1}}
  \cup {IPAddressFromSpan("kV6", V6Bytes(t[1][1], t[1][2], t[2]), Zeros(12)) :
          t \in V6Prefixes \X {0, 1}}
  \cup {IPAddressV6Scoped(V6Bytes(t[1][1], t[1][2], t[2]), t[3]) :
          t \in V6Prefixes \X {0, 1} \X (0..MaxScope)}

Ports == {0, 255, 256, UInt16Max}

EndpointValues == {[address |-> a, port |-> p] : <<a, p>> \in AddressValues \X Ports}

OrderPorts == {0, UInt16Max}

\* Native structures as the OS hands them out (recvfrom, getifaddrs, ...).
SockAddrs ==
  {[family |-> "AF_INET", sin_port |-> htons(p),
    sin_addr |-> <<b[1], 0, 0, b[2]>>, sin_zero |-> Zeros(8)] :
      <<p, b>> \in Ports \X (ByteVals \X ByteVals)}
  \cup {[family |-> "AF_INET6", sin6_port |-> htons(t[1]), sin6_flowinfo |-> 0,
         sin6_addr |-> V6Bytes(t[2][1], t[2][2], 1), sin6_scope_id |-> t[3]] :
          t \in Ports \X V6Prefixes \X (0..MaxScope)}
  \cup {[family |-> "AF_UNIX"]}

\* Addresses around the fe80::/10 block, of both versions.
LinkLocalProbes ==
  {IPAddressFromSpan("kV6", V6Bytes(t[1], t[2], 1), Zeros(12)) :
     t \in {0, 253, 254, 255} \X (0..255)}
  \cup {IPAddressV4(254, b, 0, 1) : b \in 0..255}
  \cup {IPAddressFromSpan("kV4", <<254, 128, 0, 1>>, j) : j \in JunkTails}

\* The netmask with k leading one-bits in n bytes.
MaskOfLength(n, k) ==
  [i \in 1..n |-> IF 8 * i <= k THEN 255
                  ELSE IF 8 * (i - 1) >= k THEN 0
                  ELSE 256 - 2 ^ (8 - (k - 8 * (i - 1)))]

MaskBytes == {0, 1, 128, 160, 224, 254, 255}

\* sin_addr / sin6_addr of ifa_netmask as getifaddrs may report them.
Netmasks ==
  {MaskOfLength(4, k) : k \in 0..32}
  \cup {MaskOfLength(16, k) : k \in 0..128}
  \cup [1..4 -> MaskBytes]
  \cup {[MaskOfLength(16, t[1]) EXCEPT ![t[2]] = t[3]] :
          t \in {0, 8, 19, 64, 120, 128} \X {1, 9, 16} \X MaskBytes}

\* What SIOCGIFMEDIA answers: available is ioctl(...) >= 0, avalid and
\* active are IFM_AVALID and IFM_ACTIVE of ifm_status, ieee80211 and ether
\* are ifm_current & IFM_IEEE80211 and ifm_current & IFM_ETHER.
Media(available, avalid, active, ieee80211, ether) ==
  [available |-> available, avalid |-> avalid, active |-> active,
   ieee80211 |-> ieee80211, ether |-> ether]

MediaUnavailable == Media(FALSE, FALSE, FALSE, FALSE, FALSE)
MediaInactive == Media(TRUE, TRUE, FALSE, FALSE, TRUE)
MediaInvalid == Media(TRUE, FALSE, TRUE, FALSE, TRUE)
MediaWifi == Media(TRUE, TRUE, TRUE, TRUE, FALSE)
MediaEthernet == Media(TRUE, TRUE, TRUE, FALSE, TRUE)
MediaBothBits == Media(TRUE, TRUE, TRUE, TRUE, TRUE)
MediaOtherType == Media(TRUE, TRUE, TRUE, FALSE, FALSE)

SockAddrDl(lladdr) == [family |-> "AF_LINK", lladdr |-> lladdr]

SockAddrInOf(bytes) ==
  [family |-> "AF_INET", sin_port |-> htons(0), sin_addr |-> bytes,
   sin_zero |-> Zeros(8)]

SockAddrIn6Of(bytes, scope_id) ==
  [family |-> "AF_INET6", sin6_port |-> htons(0), sin6_flowinfo |-> 0,
   sin6_addr |-> bytes, sin6_scope_id |-> scope_id]

NetmaskOf(family, bytes) == [family |-> family, bytes |-> bytes]

\* One record of the list for the interface e0: up, not loopback.
E0(ifa_addr, ifa_netmask, media, in6_flags) ==
  [ifa_name |-> <<"e", "0">>, running |-> TRUE, loopback |-> FALSE,
   ifa_addr |-> ifa_addr, ifa_netmask |-> ifa_netmask,
   media |-> media, in6_flags |-> in6_flags]

\* One record for the loopback interface lo: up, IFF_LOOPBACK.
Lo(ifa_addr, ifa_netmask, media, in6_flags) ==
  [ifa_name |-> <<"l", "o">>, running |-> TRUE, loopback |-> TRUE,
   ifa_addr |-> ifa_addr, ifa_netmask |-> ifa_netmask,
   media |-> media, in6_flags |-> in6_flags]

\* One record for the interface named 2, which is down.
Down(ifa_addr, ifa_netmask, media, in6_flags) ==
  [ifa_name |-> <<"2">>, running |-> FALSE, loopback |-> FALSE,
   ifa_addr |-> ifa_addr, ifa_netmask |-> ifa_netmask,
   media |-> media, in6_flags |-> in6_flags]

\* The records getifaddrs may report, each with the answers of the OS at the
\* time the walk stands on it.
RecordKinds ==
  {E0(SockAddrDl(<<2, 0, 0, 0, 0, 1>>), NoSockAddr, MediaEthernet, "ok"),
   E0(SockAddrInOf(<<10, 0, 0, 1>>), NetmaskOf("AF_INET", MaskOfLength(4, 24)),
      MediaBothBits, "ok"),
   E0(SockAddrIn6Of(V6Bytes(254, 128, 1), 16),
      NetmaskOf("AF_INET6", MaskOfLength(16, 64)), MediaWifi, "ok"),
   E0(SockAddrIn6Of(V6Bytes(32, 1, 2), 0),
      NetmaskOf("AF_INET6", MaskOfLength(16, 64)), MediaOtherType, "deprecated"),
   E0(SockAddrIn6Of(V6Bytes(32, 1, 3), 0), NoSockAddr, MediaEthernet, "failed"),
   E0(SockAddrInOf(<<10, 0, 0, 2>>), NetmaskOf("AF_INET6", MaskOfLength(16, 64)),
      MediaInactive, "ok"),
   E0(SockAddrInOf(<<10, 0, 0, 3>>), NoSockAddr, MediaEthernet, "ok"),
   E0(NoSockAddr, NoSockAddr, MediaEthernet, "ok"),
   E0(SockAddrIn6Of(V6Bytes(32, 1, 4), 0),
      NetmaskOf("AF_INET6", [MaskOfLength(16, 64) EXCEPT ![16] = 1]),
      MediaEthernet, "ok"),
   E0(SockAddrIn6Of(V6Bytes(32, 1, 5), 0), NoSockAddr, MediaUnavailable, "ok"),
   E0([family |-> "AF_UNIX"], NoSockAddr, MediaInvalid, "ok"),
   Lo(SockAddrInOf(<<127, 0, 0, 1>>), NetmaskOf("AF_INET", MaskOfLength(4, 8)),
      MediaUnavailable, "ok"),
   Lo(SockAddrIn6Of(V6Bytes(0, 0, 1), 0),
      NetmaskOf("AF_INET6", MaskOfLength(16, 128)), MediaUnavailable, "ok"),
   Lo(SockAddrIn6Of(V6Bytes(254, 128, 1), 1),
      NetmaskOf("AF_INET", MaskOfLength(4, 8)), MediaInactive, "ok"),
   Down(SockAddrInOf(<<10, 0, 0, 4>>), NetmaskOf("AF_INET", MaskOfLength(4, 24)),
        MediaEthernet, "ok")}

MaxRecords == 3

\* The lists of at most MaxRecords records.
InterfaceLists == UNION {[1..n -> RecordKinds] : n \in 0..MaxRecords}

----------------------------------------------------------------------------
(* State machine *)

NotParsed == Failure("kNotRun")

EndpointNotParsed == EndpointError("not run")

NoVerdict == [lt |-> FALSE, eq |-> FALSE, gt |-> FALSE, le |-> FALSE, ge |-> FALSE]

NotDecoded == [fatal |-> FALSE, endpoint |-> NoEndpoint]

textVars == <<os, text, addr, shown, again, ep, epAgain>>

orderVars == <<lhs, rhs, verdict>>

adapterVars == <<subject, native, decoded>>

TextIdle ==
  /\ os = NoInterfaces /\ text = <<>> /\ addr = NotParsed /\ shown = <<>>
  /\ again = NotParsed /\ ep = EndpointNotParsed /\ epAgain = EndpointNotParsed

OrderIdle == lhs = NoEndpoint /\ rhs = NoEndpoint /\ verdict = NoVerdict

AdapterIdle == subject = NoEndpoint /\ native = NoSockAddr /\ decoded = NotDecoded

queryVars == <<netmask_bytes, prefix_length, link_local>>

NoPrefixLength == [fatal |-> FALSE, value |-> 0]

QueryIdle == netmask_bytes = <<>> /\ prefix_length = NoPrefixLength /\ link_local = FALSE

enumVars == <<interfaces, cur, results, ioctls>>

EnumIdle == interfaces = <<>> /\ cur = 0 /\ results = <<>> /\ ioctls = <<>>

(* Text: IPAddress::Parse, IPEndpoint::Parse, operator<<, ToString *)

\* The caller holds either a text to parse or an IPAddress built through the
\* public constructors (kept in subject.address).
Init ==
  /\ os \in OSTables
  /\ \/ text \in Texts /\ subject = NoEndpoint
     \/ text = <<>> /\ subject \in {[address |-> a, port |-> 0] : a \in AddressValues}
  /\ addr = NotParsed /\ shown = <<>> /\ again = NotParsed
  /\ ep = EndpointNotParsed /\ epAgain = EndpointNotParsed
  /\ OrderIdle /\ native = NoSockAddr /\ decoded = NotDecoded /\ QueryIdle
  /\ EnumIdle
  /\ pc = "start"

ParseAddress ==
  /\ pc = "start"
  /\ addr' = Parse(os, text)
  /\ pc' = "parsed"
  /\ UNCHANGED <<os, text, shown, again, ep, epAgain, orderVars, adapterVars, queryVars, enumVars>>

FormatAddress ==
  /\ pc = "parsed" /\ addr.ok
  /\ shown' = StreamAddress(os, addr.value)
  /\ pc' = "shown"
  /\ UNCHANGED <<os, text, addr, again, ep, epAgain, orderVars, adapterVars, queryVars, enumVars>>

ReparseAddress ==
  /\ pc = "shown"
  /\ again' = Parse(os, shown)
  /\ pc' = "reparsed"
  /\ UNCHANGED <<os, text, addr, shown, ep, epAgain, orderVars, adapterVars, queryVars, enumVars>>

\* out << address for an address that was constructed, not parsed.
FormatConstructed ==
  /\ pc = "start" /\ subject # NoEndpoint
  /\ shown' = StreamAddress(os, subject.address)
  /\ pc' = "valueshown"
  /\ UNCHANGED <<os, text, addr, again, ep, epAgain, orderVars, adapterVars, queryVars, enumVars>>

ParseEndpoint ==
  /\ pc = "start"
  /\ ep' = IPEndpointParse(os, text)
  /\ pc' = "endpoint"
  /\ UNCHANGED <<os, text, addr, shown, again, epAgain, orderVars, adapterVars, queryVars, enumVars>>

FormatEndpoint ==
  /\ pc = "endpoint" /\ ep.ok
  /\ shown' = EndpointToString(os, ep.value)
  /\ pc' = "epshown"
  /\ UNCHANGED <<os, text, addr, again, ep, epAgain, orderVars, adapterVars, queryVars, enumVars>>

ReparseEndpoint ==
  /\ pc = "epshown"
  /\ epAgain' = IPEndpointParse(os, shown)
  /\ pc' = "epreparsed"
  /\ UNCHANGED <<os, text, addr, shown, again, ep, orderVars, adapterVars, queryVars, enumVars>>

Next ==
  \/ ParseAddress \/ FormatAddress \/ ReparseAddress \/ FormatConstructed
  \/ ParseEndpoint \/ FormatEndpoint \/ ReparseEndpoint

Spec == Init /\ [][Next]_vars

(* Order: the comparison operators *)

InitOrder ==
  /\ lhs \in {[address |-> a, port |-> p] : <<a, p>> \in AddressValues \X OrderPorts}
  /\ rhs \in {[address |-> a, port |-> p] : <<a, p>> \in AddressValues \X OrderPorts}
  /\ verdict = NoVerdict
  /\ TextIdle /\ AdapterIdle /\ QueryIdle /\ EnumIdle
  /\ pc = "start"

\* operator>, operator<=, operator>= of IPAddress are defined from operator<.
CompareAddresses ==
  /\ pc = "start"
  /\ verdict' = [lt |-> IPAddressLess(lhs.address, rhs.address),
                 eq |-> IPAddressEq(lhs.address, rhs.address),
                 gt |-> IPAddressLess(rhs.address, lhs.address),
                 le |-> ~IPAddressLess(rhs.address, lhs.address),
                 ge |-> ~IPAddressLess(lhs.address, rhs.address)]
  /\ pc' = "compared"
  /\ UNCHANGED <<lhs, rhs, textVars, adapterVars, queryVars, enumVars>>

\* operator>, operator<=, operator>= of IPEndpoint are defined from operator<.
CompareEndpoints ==
  /\ pc = "start"
  /\ verdict' = [lt |-> IPEndpointLess(lhs, rhs),
                 eq |-> IPEndpointEq(lhs, rhs),
                 gt |-> IPEndpointLess(rhs, lhs),
                 le |-> ~IPEndpointLess(rhs, lhs),
                 ge |-> ~IPEndpointLess(lhs, rhs)]
  /\ pc' = "epcompared"
  /\ UNCHANGED <<lhs, rhs, textVars, adapterVars, queryVars, enumVars>>

NextOrder == CompareAddresses \/ CompareEndpoints

SpecOrder == InitOrder /\ [][NextOrder]_vars

(* Adapter: IPEndpoint <-> sockaddr_in / sockaddr_in6 *)

InitAdapter ==
  /\ subject = NoEndpoint /\ native = NoSockAddr /\ decoded = NotDecoded
  /\ TextIdle /\ OrderIdle /\ QueryIdle /\ EnumIdle
  /\ pc = "start"

\* The caller builds an IPEndpoint through the public constructors.
Construct ==
  /\ pc = "start"
  /\ \E e \in EndpointValues : subject' = e
  /\ pc' = "constructed"
  /\ UNCHANGED <<native, decoded, textVars, orderVars, queryVars, enumVars>>

Encoded(sa) == IF sa.family = "fatal" THEN "fatal" ELSE "encoded"

EncodeSockAddrIn ==
  /\ pc = "constructed"
  /\ native' = ToSockAddrIn(subject)
  /\ pc' = Encoded(native')
  /\ UNCHANGED <<subject, decoded, textVars, orderVars, queryVars, enumVars>>

EncodeSockAddrIn6 ==
  /\ pc = "constructed"
  /\ native' = ToSockAddrIn6(subject)
  /\ pc' = Encoded(native')
  /\ UNCHANGED <<subject, decoded, textVars, orderVars, queryVars, enumVars>>

EncodePosix ==
  /\ pc = "constructed"
  /\ native' = SocketAddressPosixFromEndpoint(subject)
  /\ pc' = Encoded(native')
  /\ UNCHANGED <<subject, decoded, textVars, orderVars, queryVars, enumVars>>

\* The OS fills in a native structure.
Receive ==
  /\ pc = "start"
  /\ \E sa \in SockAddrs : native' = sa
  /\ pc' = "received"
  /\ UNCHANGED <<subject, decoded, textVars, orderVars, queryVars, enumVars>>

Decode ==
  /\ pc \in {"encoded", "received"}
  /\ \E junk \in JunkTails : decoded' = SocketAddressPosixFromSockAddr(native, junk)
  /\ pc' = IF decoded'.fatal THEN "fatal"
           ELSE IF pc = "encoded" THEN "roundtrip" ELSE "decoded"
  /\ UNCHANGED <<subject, native, textVars, orderVars, queryVars, enumVars>>

NextAdapter ==
  \/ Construct \/ EncodeSockAddrIn \/ EncodeSockAddrIn6 \/ EncodePosix
  \/ Receive \/ Decode

SpecAdapter == InitAdapter /\ [][NextAdapter]_vars

(* Queries: IsLinkLocal on a constructed address, ToPrefixLength on the   *)
(* netmask of an interface address                                         *)

InitQuery ==
  /\ \/ /\ subject \in {[address |-> a, port |-> 0] : a \in LinkLocalProbes}
        /\ netmask_bytes = <<>>
     \/ /\ subject = NoEndpoint
        /\ netmask_bytes \in Netmasks
  /\ prefix_length = NoPrefixLength /\ link_local = FALSE
  /\ native = NoSockAddr /\ decoded = NotDecoded
  /\ TextIdle /\ OrderIdle /\ EnumIdle
  /\ pc = "start"

QueryLinkLocal ==
  /\ pc = "start" /\ subject # NoEndpoint
  /\ link_local' = IsLinkLocal(subject.address)
  /\ pc' = "queried"
  /\ UNCHANGED <<netmask_bytes, prefix_length, textVars, orderVars, adapterVars, enumVars>>

\* ProcessInterfacesList: interface->addresses.emplace_back(ip,
\* ToPrefixLength(netmask_bytes)); a failed check ends the enumeration.
DerivePrefixLength ==
  /\ pc = "start" /\ netmask_bytes # <<>>
  /\ prefix_length' = ToPrefixLength(netmask_bytes)
  /\ pc' = IF prefix_length'.fatal THEN "fatal" ELSE "derived"
  /\ UNCHANGED <<netmask_bytes, link_local, textVars, orderVars, adapterVars, enumVars>>

NextQuery == QueryLinkLocal \/ DerivePrefixLength

SpecQuery == InitQuery /\ [][NextQuery]_vars

----------------------------------------------------------------------------
(* Enumeration: GetNetworkInterfaces walks the getifaddrs list *)

InitEnum ==
  /\ interfaces \in InterfaceLists
  /\ cur = 1 /\ results = <<>> /\ ioctls = <<>>
  /\ os = SomeInterfaces /\ text = <<>> /\ addr = NotParsed /\ shown = <<>>
  /\ again = NotParsed /\ ep = EndpointNotParsed /\ epAgain = EndpointNotParsed
  /\ OrderIdle /\ AdapterIdle /\ QueryIdle
  /\ pc = "walk"

\* for (ifaddrs* cur = interfaces; cur; cur = cur->ifa_next): one round.
ProcessRecord ==
  /\ pc = "walk" /\ cur <= Len(interfaces)
  /\ \E junk \in JunkTails :
       LET step == LoopBody(os, results, interfaces[cur], junk)
       IN  /\ results' = step.entries
           /\ ioctls' = ioctls \o Issued(step, interfaces[cur])
           /\ IF step.fatal
                THEN pc' = "fatal" /\ cur' = cur
                ELSE pc' = "walk" /\ cur' = cur + 1
  /\ UNCHANGED <<interfaces, textVars, orderVars, adapterVars, queryVars>>

\* return results;
Return ==
  /\ pc = "walk" /\ cur > Len(interfaces)
  /\ pc' = "returned"
  /\ UNCHANGED <<enumVars, textVars, orderVars, adapterVars, queryVars>>

NextEnum == ProcessRecord \/ Return

SpecEnum == InitEnum /\ [][NextEnum]_vars

----------------------------------------------------------------------------
(* Properties *)

\* C1: address text round trip.  Whenever IPAddress::Parse(text) succeeded
\* with value a, the text written by operator<< for a parses again, to an
\* address equal to a (same version, same bytes, same scope id).
C1_AddressTextRoundTrip ==
  pc = "reparsed" => again.ok /\ IPAddressEq(again.value, addr.value)

\* C2: adapter round trip.  Encoding an IPEndpoint into its native structure
\* and decoding that structure yields an IPEndpoint equal to the original.
C2_AdapterRoundTrip ==
  pc = "roundtrip" => IPEndpointEq(decoded.endpoint, subject)

MeaningfulBytes(a) == SubSeq(a.bytes, 1, size(a))

\* x comes before y in lexicographic order (equal lengths).
LexBefore(x, y) ==
  \E i \in 1..Len(x) : x[i] < y[i] /\ \A j \in 1..(i - 1) : x[j] = y[j]

\* C3: the IPAddress order is total and consistent with equality: exactly one
\* of a<b, a==b, b<a holds; every V4 address is below every V6 address;
\* within a version the order is the lexicographic order of the size()
\* meaningful bytes, a V6 tie on bytes being broken by the lower scope id.
C3_AddressOrderTotal ==
  pc = "compared" =>
    LET a == lhs.address
        b == rhs.address
    IN  /\ Cardinality({k \in {"lt", "eq", "gt"} : verdict[k]}) = 1
        /\ (IsV4(a) /\ IsV6(b) => verdict.lt)
        /\ (a.version = b.version =>
              (verdict.lt <=>
                 \/ LexBefore(MeaningfulBytes(a), MeaningfulBytes(b))
                 \/ /\ IsV6(a)
                    /\ MeaningfulBytes(a) = MeaningfulBytes(b)
                    /\ a.scope_id < b.scope_id))

\* Two V6 addresses that differ only in scope id have been compared.
C3_Witness ==
  /\ pc = "compared"
  /\ IsV6(lhs.address) /\ IsV6(rhs.address)
  /\ lhs.address.bytes = rhs.address.bytes
  /\ lhs.address.scope_id < rhs.address.scope_id
  /\ verdict.lt

\* C4: scope-id invariant.  Every IPAddress obtained from a constructor or by
\* decoding a native structure that is not link-local has GetScopeId() = 0.
C4_ScopeIdInvariant ==
  \A a \in {subject.address, decoded.endpoint.address} :
    a.version # "none" /\ ~IsLinkLocal(a) => GetScopeId(a) = 0

----------------------------------------------------------------------------
(* Reference grammar, stated on the text itself *)

DecimalChars == <<"0","1","2","3","4","5","6","7","8","9">>

HexChars ==
  {"0","1","2","3","4","5","6","7","8","9",
   "a","b","c","d","e","f","A","B","C","D","E","F"}

RECURSIVE Split(_, _)
\* The pieces of s between the occurrences of sep (always at least one piece).
Split(s, sep) ==
  IF Find(s, sep) = 0 THEN <<s>>
  ELSE <<SubSeq(s, 1, Find(s, sep) - 1)>> \o Split(RemovePrefix(s, Find(s, sep)), sep)

IsDecimalRun(g) ==
  Len(g) > 0 /\ \A i \in 1..Len(g) : \E d \in 1..10 : DecimalChars[d] = g[i]

RECURSIVE DropLeadingZeroChars(_)
DropLeadingZeroChars(g) ==
  IF Len(g) > 1 /\ g[1] = "0" THEN DropLeadingZeroChars(Tail(g)) ELSE g

RECURSIVE DecimalOf(_)
DecimalOf(g) ==
  IF g = <<>> THEN 0
  ELSE DecimalOf(SubSeq(g, 1, Len(g) - 1)) * 10
       + ((CHOOSE d \in 1..10 : DecimalChars[d] = g[Len(g)]) - 1)

\* Value of a decimal run, or -1 when it has more than maxLen significant digits.
DecimalValue(g, maxLen) ==
  IF Len(DropLeadingZeroChars(g)) > maxLen THEN 0 - 1
  ELSE DecimalOf(DropLeadingZeroChars(g))

IsHextet(g) == Len(g) \in 1..4 /\ \A i \in 1..Len(g) : g[i] \in HexChars

RECURSIVE HextetValue(_)
HextetValue(g) ==
  IF g = <<>> THEN 0
  ELSE HextetValue(SubSeq(g, 1, Len(g) - 1)) * 16 + DigitValue(g[Len(g)])

AddressPart(t) == IF Find(t, "%") = 0 THEN t ELSE SubSeq(t, 1, Find(t, "%") - 1)

ZonePart(t) == RemovePrefix(t, Find(t, "%"))

NumDoubleColons(t) == Cardinality({i \in 1..Len(t) : DoubleColonAt(t, i)})

Groups(x) == IF x = <<>> THEN <<>> ELSE Split(x, ":")

\* For a text with "::": the groups before and after its first occurrence.
GroupsBefore(t) == Groups(SubSeq(t, 1, FindDoubleColon(t) - 1))

GroupsAfter(t) == Groups(SubSeq(t, FindDoubleColon(t) + 2, Len(t)))

\* All colon-delimited groups of t, the "::" run (if there is one) set aside.
WrittenGroups(t) ==
  IF NumDoubleColons(t) = 0 THEN Split(t, ":")
  ELSE GroupsBefore(t) \o GroupsAfter(t)

Hextets(a) == [i \in 1..8 |-> a.bytes[2 * i - 1] * 256 + a.bytes[2 * i]]

\* C5: IPv4 grammar.  IPAddress::Parse returns a V4 address exactly when the
\* text is four non-empty runs of decimal digits of value 0..255 separated
\* by single dots, and then the four bytes are those values in order.
C5_V4Grammar ==
  pc = "parsed" =>
    LET segs == Split(text, ".")
        wf   == /\ Len(segs) = 4
                /\ \A i \in 1..4 : /\ IsDecimalRun(segs[i])
                                   /\ DecimalValue(segs[i], 3) \in 0..255
    IN  /\ (addr.ok /\ IsV4(addr.value)) <=> wf
        /\ wf => \A i \in 1..4 : addr.value.bytes[i] = DecimalValue(segs[i], 3)

\* A text with a leading-zero octet and the largest octet has parsed as V4.
C5_Witness ==
  /\ pc = "parsed" /\ addr.ok /\ IsV4(addr.value)
  /\ text = <<"0","0","7",".","7",".","7">> \o <<".","7">>

\* C6: IPv6 hextet grammar.  No text is accepted as IPv6 in which a
\* colon-delimited group has more than 4 hex digits, a non-hex character,
\* or is empty other than as part of the single "::" run.
C6_HextetGrammar ==
  pc = "parsed" /\ addr.ok /\ IsV6(addr.value) =>
    /\ NumDoubleColons(AddressPart(text)) <= 1
    /\ \A i \in 1..Len(WrittenGroups(AddressPart(text))) :
         IsHextet(WrittenGroups(AddressPart(text))[i])

\* C7: "::" expansion.  With exactly one "::" between a and b well-formed
\* hextets, parsing succeeds exactly when a + b <= 7 and yields the a
\* hextets, 8 - a - b zero hextets, and the b hextets; with more than one
\* "::" (":::" included) it fails; without "::" it succeeds exactly when
\* there are 8 hextets.
C7_DoubleColonExpansion ==
  pc = "parsed" /\ Find(text, "%") = 0 =>
    LET n  == NumDoubleColons(text)
        A  == GroupsBefore(text)
        B  == GroupsAfter(text)
        wf == \A i \in 1..Len(WrittenGroups(text)) : IsHextet(WrittenGroups(text)[i])
    IN  /\ n = 1 /\ wf =>
             /\ addr.ok <=> Len(A) + Len(B) <= 7
             /\ addr.ok =>
                  /\ IsV6(addr.value)
                  /\ Hextets(addr.value) =
                       [i \in 1..8 |->
                          IF i <= Len(A) THEN HextetValue(A[i])
                          ELSE IF i > 8 - Len(B) THEN HextetValue(B[i - (8 - Len(B))])
                          ELSE 0]
        /\ n >= 2 => ~addr.ok
        /\ n = 0 /\ wf => (addr.ok <=> Len(WrittenGroups(text)) = 8)

\* A text with hextets on both sides of "::" and one zero hextet to insert
\* has been parsed.
C7_Witness ==
  /\ pc = "parsed" /\ addr.ok /\ Find(text, "%") = 0
  /\ NumDoubleColons(text) = 1
  /\ Len(GroupsBefore(text)) = 3 /\ Len(GroupsAfter(text)) = 4
  /\ Hextets(addr.value)[4] = 0 /\ Hextets(addr.value)[5] # 0

\* C8: zone suffix rules.  With a '%' in the text, parsing fails when the
\* text after the first '%' neither names an interface nor is a complete
\* decimal number greater than 0; on success the address is link-local and
\* its scope id is the resolved non-zero value.
C8_ZoneSuffix ==
  pc = "parsed" /\ Find(text, "%") # 0 =>
    LET zone    == ZonePart(text)
        byName  == IF \E r \in os : r.name = zone
                     THEN (CHOOSE r \in os : r.name = zone).index ELSE 0
        decimal == IF IsDecimalRun(zone) THEN DecimalValue(zone, 9) ELSE 0
        \* a decimal number above zero; more than nine significant digits
        \* are above zero whatever their value
        isPos   == IsDecimalRun(zone) /\ decimal # 0
    IN  /\ byName = 0 /\ ~isPos => ~addr.ok
        /\ addr.ok =>
             /\ IsLinkLocal(addr.value)
             /\ GetScopeId(addr.value) # 0
             /\ byName # 0 => GetScopeId(addr.value) = byName
             /\ byName = 0 /\ decimal > 0 => GetScopeId(addr.value) = decimal

\* A link-local address with a decimal zone no interface is named after
\* has been parsed.
C8_Witness ==
  /\ pc = "parsed" /\ addr.ok /\ Find(text, "%") # 0
  /\ \A r \in os : r.name # ZonePart(text)
  /\ GetScopeId(addr.value) = 16

\* C9: endpoint bracket disambiguation.  With p the position of the last
\* ':', the address part is parsed with the IPv6 grammar (zone included)
\* exactly when the text starts with '[' and has ']' right before p, and
\* with the IPv4 grammar otherwise; on success the endpoint carries the
\* parsed address and port.
C9_BracketDisambiguation ==
  pc = "endpoint" =>
    LET p  == RFind(text, ":")
        br == text[1] = "[" /\ text[p - 1] = "]"
        inner == SubSeq(text, 2, p - 2)
        host  == SubSeq(text, 1, p - 1)
        portText == RemovePrefix(text, p)
        segs  == Split(host, ".")
        v4ok  == /\ Len(segs) = 4
                 /\ \A i \in 1..4 : /\ IsDecimalRun(segs[i])
                                    /\ DecimalValue(segs[i], 3) \in 0..255
    IN  /\ ep.ok => p > 1 /\ p < Len(text)
        /\ ep.ok /\ br =>
             /\ ParseV6(os, inner).ok
             /\ ep.value.address = ParseV6(os, inner).value
             /\ IsV6(ep.value.address)
        /\ ep.ok /\ ~br =>
             /\ v4ok
             /\ IsV4(ep.value.address)
             /\ \A i \in 1..4 : ep.value.address.bytes[i] = DecimalValue(segs[i], 3)
        /\ ep.ok /\ IsDecimalRun(portText) => ep.value.port = DecimalValue(portText, 5)
        /\ p > 1 /\ p < Len(text) /\ br /\ ~ParseV6(os, inner).ok => ~ep.ok
        /\ p > 1 /\ p < Len(text) /\ ~br /\ ~v4ok => ~ep.ok
        /\ text \in {<<"a","b","c","d",":",":","1",":","8","0","8","0">>,
                     <<"[","1",".","2",".","3",".","4","]",":","9","9">>,
                     <<"[","]",":","9","9">>,
                     <<"l","o","c","a","l","h","o","s","t",":","9","9">>} => ~ep.ok

\* A bracketed IPv6 address with a zone and a port has been parsed.
C9_Witness ==
  /\ pc = "endpoint" /\ ep.ok
  /\ text = <<"[","f","e","8","0",":",":","1","%","l","o","]",":","8","0","8","0">>
  /\ GetScopeId(ep.value.address) = 1 /\ ep.value.port = 8080

\* C10: endpoint port grammar.  IPEndpoint::Parse fails whenever the text
\* after the last ':' holds a character other than a decimal digit or
\* denotes a value above 65535; on success the port is the decimal value.
C10_PortGrammar ==
  pc = "endpoint" =>
    LET portText == RemovePrefix(text, RFind(text, ":"))
    IN  /\ ~IsDecimalRun(portText) => ~ep.ok
        /\ IsDecimalRun(portText) /\ DecimalValue(portText, 5) \notin 0..65535 => ~ep.ok
        /\ ep.ok => ep.value.port = DecimalValue(portText, 5) /\ ep.value.port \in 0..65535

\* Positions of text that hold a whitespace character.
HasWhitespace(t) == \E i \in 1..Len(t) : t[i] \in WhitespaceChars

WithoutWhitespace(t) == SelectSeq(t, LAMBDA c : c \notin WhitespaceChars)

\* C11: no whitespace.  IPEndpoint::Parse fails for every text that holds a
\* whitespace character, wherever it stands, in the IPv4 and in the
\* bracketed IPv6 form.
C11_NoWhitespace ==
  pc = "endpoint" /\ HasWhitespace(text) => ~ep.ok

\* A bracketed text that parses once its whitespace (standing between ':'
\* and the port) is taken out has been rejected.
C11_Witness ==
  /\ pc = "endpoint" /\ ~ep.ok
  /\ Len(text) > 0 /\ text[1] = "["
  /\ RFind(text, ":") \in 1..(Len(text) - 1)
  /\ text[RFind(text, ":") + 1] \in WhitespaceChars
  /\ IPEndpointParse(os, WithoutWhitespace(text)).ok

\* The address operator<< has just written, when it has just written one.
Written ==
  IF pc = "shown" THEN addr.value
  ELSE IF pc = "valueshown" THEN subject.address
  ELSE NoAddress

IsLowerHex(c) == \E i \in 1..16 : HexLower[i] = c

\* C12: canonical formatting.  A V4 address is written as its four bytes in
\* decimal without leading zeros joined by '.'; a V6 address as 8 groups of
\* exactly 4 lowercase hex digits joined by ':', 39 characters before any
\* zone suffix, whatever text or constructor the value came from.
C12_CanonicalFormat ==
  Written # NoAddress =>
    LET a == Written
        body == AddressPart(shown)
        segs == Split(body, IF IsV4(a) THEN "." ELSE ":")
    IN  /\ IsV4(a) =>
             /\ Len(segs) = 4
             /\ \A i \in 1..4 :
                  /\ IsDecimalRun(segs[i])
                  /\ Len(segs[i]) = 1 \/ segs[i][1] # "0"
                  /\ DecimalValue(segs[i], 3) = a.bytes[i]
             /\ body = shown
        /\ IsV6(a) =>
             /\ Len(body) = 39
             /\ Len(segs) = 8
             /\ \A i \in 1..8 :
                  /\ Len(segs[i]) = 4
                  /\ \A j \in 1..4 : IsLowerHex(segs[i][j])
                  /\ HextetValue(segs[i]) = a.bytes[2 * i - 1] * 256 + a.bytes[2 * i]

\* A V6 address parsed from a short text with "::" and an uppercase group
\* has been written out.
C12_Witness ==
  /\ pc = "shown" /\ IsV6(addr.value)
  /\ NumDoubleColons(text) = 1 /\ Len(text) < 39
  /\ \E i \in 1..Len(text) : text[i] = "F"

\* C13: zone suffix on output.  operator<< appends a '%' suffix exactly when
\* the address is link-local with scope id # 0; the suffix is the interface
\* name the OS resolves the scope id to, and otherwise the scope id written
\* as a decimal number.
C13_ZoneSuffixOnOutput ==
  Written # NoAddress =>
    LET a == Written
        suffixed == IsLinkLocal(a) /\ GetScopeId(a) # 0
    IN  /\ Find(shown, "%") # 0 <=> suffixed
        /\ suffixed =>
             ZonePart(shown) =
               IF \E r \in os : r.index = GetScopeId(a)
                 THEN (CHOOSE r \in os : r.index = GetScopeId(a)).name
                 ELSE FormatInt(GetScopeId(a), 10)

\* C14: endpoint text round trip.  For every endpoint e a successful
\* IPEndpoint::Parse returned, e.ToString() brackets the address exactly when
\* it is V6 and writes the port in decimal without leading zeros, and
\* IPEndpoint::Parse of that text succeeds with a value equal to e.
C14_EndpointTextRoundTrip ==
  /\ pc \in {"epshown", "epreparsed"} =>
       LET e == ep.value
           p == RFind(shown, ":")
           portText == RemovePrefix(shown, p)
       IN  /\ (shown[1] = "[" /\ shown[p - 1] = "]") <=> IsV6(e.address)
           /\ IsV4(e.address) => CountChar(shown, "[") + CountChar(shown, "]") = 0
           /\ IsDecimalRun(portText)
           /\ Len(portText) = 1 \/ portText[1] # "0"
           /\ DecimalValue(portText, 5) = e.port
  /\ pc = "epreparsed" => epAgain.ok /\ IPEndpointEq(epAgain.value, ep.value)

\* Both addresses have the same version, meaningful bytes and scope id.
SameAddress(a, b) ==
  /\ a.version = b.version
  /\ MeaningfulBytes(a) = MeaningfulBytes(b)
  /\ a.scope_id = b.scope_id

\* a sorts before b: V4 before V6, then the meaningful bytes, then for V6
\* the scope id.
AddressBefore(a, b) ==
  \/ IsV4(a) /\ IsV6(b)
  \/ /\ a.version = b.version
     /\ \/ LexBefore(MeaningfulBytes(a), MeaningfulBytes(b))
        \/ /\ IsV6(a)
           /\ MeaningfulBytes(a) = MeaningfulBytes(b)
           /\ a.scope_id < b.scope_id

\* C15: the IPEndpoint order is the lexicographic order of (address, port):
\* a<b exactly when a.address<b.address, or the addresses are equal and
\* a.port<b.port; a==b exactly when both components are equal; exactly one
\* of a<b, a==b, b<a holds, and <=, >, >= agree with them.
C15_EndpointOrder ==
  pc = "epcompared" =>
    LET a == lhs
        b == rhs
    IN  /\ verdict.lt <=>
             \/ AddressBefore(a.address, b.address)
             \/ SameAddress(a.address, b.address) /\ a.port < b.port
        /\ verdict.eq <=> SameAddress(a.address, b.address) /\ a.port = b.port
        /\ Cardinality({k \in {"lt", "eq", "gt"} : verdict[k]}) = 1
        /\ verdict.gt <=>
             \/ AddressBefore(b.address, a.address)
             \/ SameAddress(a.address, b.address) /\ b.port < a.port
        /\ verdict.le <=> (verdict.lt \/ verdict.eq)
        /\ verdict.ge <=> (verdict.gt \/ verdict.eq)

\* Two endpoints where the address and the port pull in opposite directions
\* have been compared.
C15_Witness ==
  /\ pc = "epcompared"
  /\ AddressBefore(lhs.address, rhs.address) /\ lhs.port > rhs.port
  /\ verdict.lt /\ ~verdict.gt /\ verdict.le

\* C16: IsLinkLocal() is true exactly for the V6 addresses whose first byte
\* is 0xfe and whose second byte lies in 0x80..0xbf (fe80:: through
\* febf:ffff:...); it is false for every V4 address.
C16_IsLinkLocal ==
  pc = "queried" =>
    LET a == subject.address
    IN  link_local <=>
          /\ a.version = "kV6"
          /\ a.bytes[1] = 254
          /\ a.bytes[2] \in 128..191

\* fe90::1 has been found link-local.
C16_Witness ==
  /\ pc = "queried" /\ link_local
  /\ subject.address.version = "kV6"
  /\ subject.address.bytes[1] = 254 /\ subject.address.bytes[2] = 144

\* The netmask is k one-bits followed by zero-bits only.
IsMaskOfLength(m, k) == k \in 0..(8 * Len(m)) /\ m = MaskOfLength(Len(m), k)

\* C19: prefix-length derivation.  For a 4-byte or 16-byte netmask of k
\* leading one-bits followed only by zero-bits, ToPrefixLength returns
\* exactly k.
C19_PrefixLength ==
  pc \in {"derived", "fatal"} =>
    \A k \in 0..128 :
      IsMaskOfLength(netmask_bytes, k) =>
        ~prefix_length.fatal /\ prefix_length.value = k

\* ff.ff.e0.00 has given 19.
C19_Witness ==
  /\ pc = "derived"
  /\ netmask_bytes = <<255, 255, 224, 0>>
  /\ prefix_length.value = 19

C17_DeterministicEncoding ==
  pc = "encoded" =>
    LET a == subject.address
        port == <<subject.port \div 256, subject.port % 256>>
        scoped == a.bytes[1] = 254 /\ a.bytes[2] \in 128..191 /\ a.scope_id # 0
    IN  /\ a.version = "kV4" =>
             native = [family |-> "AF_INET", sin_port |-> port,
                       sin_addr |-> <<a.bytes[1], a.bytes[2], a.bytes[3], a.bytes[4]>>,
                       sin_zero |-> <<0, 0, 0, 0, 0, 0, 0, 0>>]
        /\ a.version = "kV6" =>
             native = [family |-> "AF_INET6", sin6_port |-> port,
                       sin6_flowinfo |-> 0,
                       sin6_addr |-> a.bytes,
                       sin6_scope_id |-> IF scoped THEN a.scope_id ELSE 0]
        /\ \A e \in EndpointValues :
             IPEndpointEq(e, subject) => SocketAddressPosixFromEndpoint(e) = native

\* A V6 address that is not link-local but carries a scope id has been
\* encoded with a zero scope-id field.
C17_Witness ==
  /\ pc = "encoded"
  /\ IsV6(subject.address) /\ ~IsLinkLocal(subject.address)
  /\ GetScopeId(subject.address) # 0
  /\ native.sin6_scope_id = 0

\* C18: the adapter produces no value on an invariant violation.  Decoding
\* a structure whose family is neither IPv4 nor IPv6 is fatal, ToSockAddrIn
\* of a V6 address and ToSockAddrIn6 of a V4 address are fatal, and
\* SocketAddressPosix(const IPEndpoint&) picks the shape of the address
\* version and is never fatal.
C18_FatalOnViolation ==
  [][ /\ (Decode /\ native.family \notin {"AF_INET", "AF_INET6"}) =>
           (pc' = "fatal" /\ decoded'.fatal /\ decoded'.endpoint = NoEndpoint)
      /\ (EncodeSockAddrIn /\ subject.address.version # "kV4") =>
           (pc' = "fatal" /\ native'.family = "fatal")
      /\ (EncodeSockAddrIn6 /\ subject.address.version # "kV6") =>
           (pc' = "fatal" /\ native'.family = "fatal")
      /\ EncodePosix =>
           /\ pc' = "encoded"
           /\ native'.family =
                IF subject.address.version = "kV4" THEN "AF_INET" ELSE "AF_INET6"
    ]_vars

\* ToSockAddrIn has been called with a V6 address and produced nothing.
C18_Witness ==
  /\ pc = "fatal"
  /\ IsV6(subject.address)
  /\ native.family = "fatal"

----------------------------------------------------------------------------
(* Properties of the interface enumerator *)

\* The records the walk has gone through: up to and including the one at
\* which it was ended by a failed check.
Walked == SubSeq(interfaces, 1, IF pc = "fatal" THEN cur ELSE cur - 1)

\* An entry list as a caller can tell it apart: the bytes of a V4 address
\* past the fourth are not part of its value.
VisibleAddress(a) ==
  [version |-> a.version, bytes |-> SubSeq(a.bytes, 1, size(a)),
   scope_id |-> a.scope_id]

VisibleEntries(entries) ==
  [i \in 1..Len(entries) |->
     [entries[i] EXCEPT !.addresses =
        [k \in 1..Len(@) |-> [address |-> VisibleAddress(@[k].address),
                              prefix_length |-> @[k].prefix_length]]]]

\* The records of list that are up and carry an address.
WithoutFiltered(list) ==
  SelectSeq(list, LAMBDA r : r.running /\ r.ifa_addr.family # "none")

\* C21: a record whose interface is not running or that carries no address
\* has no effect: the entries, their subnets and hardware addresses, the
\* ioctl requests issued and the outcome of the walk are those of the walk
\* of the same list with these records taken out.
C21_FilterHasNoEffect ==
  LET absent == WithoutFiltered(Walked)
      ref == WalkFrom(os, absent, Zeros(12), Len(absent))
  IN  pc \in {"walk", "returned", "fatal"} =>
        /\ VisibleEntries(results) = VisibleEntries(ref.entries)
        /\ ioctls = ref.ioctls
        /\ (pc = "fatal") = ref.fatal

C21_Witness ==
  /\ pc = "returned" /\ results # <<>>
  /\ \E i \in 1..Len(interfaces) : ~interfaces[i].running
  /\ \E i \in 1..Len(interfaces) :
       interfaces[i].running /\ interfaces[i].ifa_addr.family = "none"

\* The rounds of the loop the walk has completed.
Completed == SubSeq(interfaces, 1, cur - 1)

\* Record i of the walked list passes the filter and, were its name new,
\* the classification.
Acceptable(i) ==
  /\ Walked[i].running /\ Walked[i].ifa_addr.family # "none"
  /\ Classify(Walked[i]).kept

\* The record at which the name n was first accepted, 0 if at none.
FirstAccepted(n) ==
  LET at == {i \in 1..Len(Walked) : Walked[i].ifa_name = n /\ Acceptable(i)}
  IN  IF at = {} THEN 0 ELSE CHOOSE i \in at : \A j \in at : i <= j

\* The subnet a completed round on record r appends, as a one-element or
\* empty sequence.
SubnetOf(r) ==
  IF r.ifa_addr.family = "AF_INET"
    THEN <<[address |-> [version |-> "kV4", bytes |-> r.ifa_addr.sin_addr,
                         scope_id |-> 0],
            prefix_length |-> ToPrefixLength(NetmaskBytes(r, "AF_INET", 4)).value]>>
  ELSE IF r.ifa_addr.family = "AF_INET6" /\ r.in6_flags = "ok"
    THEN <<[address |-> [version |-> "kV6", bytes |-> r.ifa_addr.sin6_addr,
                         scope_id |-> r.ifa_addr.sin6_scope_id],
            prefix_length |-> ToPrefixLength(NetmaskBytes(r, "AF_INET6", 16)).value]>>
  ELSE <<>>

\* The subnets of the completed rounds from record first on whose record is
\* named n, in record order.
RECURSIVE SubnetsOf(_, _, _)
SubnetsOf(n, first, last) ==
  IF last < first \/ first = 0 THEN <<>>
  ELSE SubnetsOf(n, first, last - 1)
       \o (IF Completed[last].ifa_name = n /\ Completed[last].running
             THEN SubnetOf(Completed[last]) ELSE <<>>)

\* C22: in the list being returned the names are pairwise distinct, the
\* entries stand in the order in which their names were first accepted, and
\* the subnets made from the records named n are the addresses of the entry
\* named n, in record order.
C22_Grouping ==
  pc \in {"walk", "returned", "fatal"} =>
    /\ \A i, j \in 1..Len(results) : i # j => results[i].name # results[j].name
    /\ {results[i].name : i \in 1..Len(results)}
         = {Walked[i].ifa_name : i \in {k \in 1..Len(Walked) : Acceptable(k)}}
    /\ \A i, j \in 1..Len(results) :
         i < j => FirstAccepted(results[i].name) < FirstAccepted(results[j].name)
    /\ \A i \in 1..Len(results) :
         VisibleEntries(results)[i].addresses
           = SubnetsOf(results[i].name, FirstAccepted(results[i].name),
                       Len(Completed))

C22_Witness ==
  /\ pc = "returned" /\ Len(results) = 2
  /\ Len(results[1].addresses) = 2
  /\ Len(interfaces) = 3 /\ interfaces[2].ifa_name # results[1].name

\* The first record of the walked list named n that passes the filter, 0
\* if there is none: the first sighting of n.
FirstSighting(n) ==
  LET at == {i \in 1..Len(Walked) :
               /\ Walked[i].ifa_name = n
               /\ Walked[i].running /\ Walked[i].ifa_addr.family # "none"}
  IN  IF at = {} THEN 0 ELSE CHOOSE i \in at : \A j \in at : i <= j

\* C23: during one enumeration SIOCGIFMEDIA is issued at most once for a
\* name, and an interface dropped at its first sighting is in the result
\* after no later record of its name.
C23_ClassifiedOnce ==
  pc \in {"walk", "returned", "fatal"} =>
    /\ \A i, j \in 1..Len(ioctls) :
         (/\ ioctls[i].request = "SIOCGIFMEDIA"
          /\ ioctls[j].request = "SIOCGIFMEDIA"
          /\ ioctls[i].name = ioctls[j].name) => i = j
    /\ \A i \in 1..Len(results) :
         Classify(Walked[FirstSighting(results[i].name)]).kept

\* Record r passes the filter.
PassesFilter(r) == r.running /\ r.ifa_addr.family # "none"

\* The media answer at r is valid and active, or there is none and r is of
\* a loopback interface.
MediaAccepts(r) ==
  \/ r.media.available /\ r.media.avalid /\ r.media.active
  \/ ~r.media.available /\ r.loopback

\* The first walked record named n that passes the filter under an
\* accepting media answer, 0 if there is none.
AcceptedAt(n) ==
  LET at == {i \in 1..Len(Walked) :
               /\ Walked[i].ifa_name = n
               /\ PassesFilter(Walked[i]) /\ MediaAccepts(Walked[i])}
  IN  IF at = {} THEN 0 ELSE CHOOSE i \in at : \A j \in at : i <= j

\* C24 as claimed: an entry is typed Wifi when the media answer under which
\* it was accepted has the Wi-Fi flag, else Ethernet when it has the
\* Ethernet flag, Loopback when there was no media answer, and there is no
\* entry for an interface that is none of the three.
C24_UnclassifiableDropped ==
  pc \in {"walk", "returned", "fatal"} =>
    \A i \in 1..Len(results) :
      LET r == Walked[AcceptedAt(results[i].name)]
      IN  /\ AcceptedAt(results[i].name) # 0
          /\ results[i].type \in {"kWifi", "kEthernet", "kLoopback"}
          /\ results[i].type = "kWifi" <=> r.media.available /\ r.media.ieee80211
          /\ results[i].type = "kLoopback" <=> ~r.media.available

\* C24, amended: the entries are exactly the names with a record that
\* passes the filter under a media answer that is valid and active, or under
\* no media answer with the loopback flag set; the type is taken from the
\* first such record: Wifi with the Wi-Fi flag, else Ethernet with the
\* Ethernet flag, else Other, and Loopback where there was no media answer.
C24_ClassificationOutcome ==
  pc \in {"walk", "returned", "fatal"} =>
    /\ {results[i].name : i \in 1..Len(results)}
         = {Walked[i].ifa_name :
              i \in {k \in 1..Len(Walked) :
                       PassesFilter(Walked[k]) /\ MediaAccepts(Walked[k])}}
    /\ \A i \in 1..Len(results) :
         LET r == Walked[AcceptedAt(results[i].name)]
         IN  results[i].type =
               IF ~r.media.available THEN "kLoopback"
               ELSE IF r.media.ieee80211 THEN "kWifi"
               ELSE IF r.media.ether THEN "kEthernet"
               ELSE "kOther"

C24_Witness ==
  /\ pc = "returned"
  /\ \E i \in 1..Len(results) : results[i].type = "kOther"
  /\ \E i \in 1..Len(interfaces) :
       /\ PassesFilter(interfaces[i]) /\ ~MediaAccepts(interfaces[i])
       /\ AcceptedAt(interfaces[i].ifa_name) = 0

\* The IPv6 addresses of an entry, in order.
Inet6Addresses(entry) ==
  SelectSeq(entry.addresses, LAMBDA subnet : subnet.address.version = "kV6")

\* The IPv6 subnets owed to the entry named n by the completed rounds since
\* its creation, when the records appended are those whose deprecated-status
\* answer is in appended.
Inet6Owed(n, appended) ==
  LET from == SubSeq(Completed, AcceptedAt(n), Len(Completed))
      recs == SelectSeq(from, LAMBDA r : /\ r.ifa_name = n /\ PassesFilter(r)
                                         /\ r.ifa_addr.family = "AF_INET6"
                                         /\ r.in6_flags \in appended)
  IN  [k \in 1..Len(recs) |->
         [address |-> [version |-> "kV6", bytes |-> recs[k].ifa_addr.sin6_addr,
                       scope_id |-> recs[k].ifa_addr.sin6_scope_id],
          prefix_length |->
            ToPrefixLength(NetmaskBytes(recs[k], "AF_INET6", 16)).value]]

\* C25 as claimed: the IPv6 addresses of an entry are those of its records
\* that are not deprecated, each with its scope id and the prefix length of
\* its netmask.
C25_AppendedUnlessDeprecated ==
  pc \in {"walk", "returned"} =>
    \A i \in 1..Len(results) :
      Inet6Addresses(results[i]) = Inet6Owed(results[i].name, {"ok", "failed"})

\* C25, amended: the IPv6 addresses of an entry are those of its records for
\* which the deprecated-status query succeeded and reported the address as
\* not deprecated, each with its scope id and the prefix length of its
\* netmask; a record whose query fails is skipped like a deprecated one, and
\* the walk is ended on a record only past that test.
C25_Inet6Appended ==
  /\ pc \in {"walk", "returned", "fatal"} =>
       \A i \in 1..Len(results) :
         Inet6Addresses(results[i]) = Inet6Owed(results[i].name, {"ok"})
  /\ (pc = "fatal" /\ interfaces[cur].ifa_addr.family = "AF_INET6") =>
       interfaces[cur].in6_flags = "ok"

C25_Witness ==
  /\ pc = "returned" /\ Len(results) = 1
  /\ Len(results[1].addresses) = 1
  /\ results[1].addresses[1].address.version = "kV6"
  /\ results[1].addresses[1].address.scope_id = 16
  /\ results[1].addresses[1].prefix_length = 64
  /\ \E i \in 1..Len(interfaces) : interfaces[i].in6_flags = "deprecated"
  /\ \E i \in 1..Len(interfaces) : interfaces[i].in6_flags = "failed"

\* C26: ToPrefixLength checks that the netmask has no holes and returns 0
\* if that check fails: for a netmask with a one-bit after its first
\* zero-bit the derivation returns, and what it returns is 0.
C26_ZeroOnHole ==
  (pc \in {"derived", "fatal"} /\ ~\E k \in 0..(8 * Len(netmask_bytes)) :
                                     IsMaskOfLength(netmask_bytes, k)) =>
    prefix_length = [fatal |-> FALSE, value |-> 0]

----------------------------------------------------------------------------
(* Further properties of parsing *)

\* The address part of an endpoint text whose last ':' stands at colon is
\* one IPEndpoint::Parse takes.
AddressPartValid(t, colon) ==
  IF t[1] = "[" /\ t[colon - 1] = "]"
    THEN ParseV6(os, SubSeq(t, 2, colon - 2)).ok
    ELSE ParseV4(SubSeq(t, 1, colon - 1)).ok

\* The reason owed to a failing text: that of the first failing check.
ReasonOwed(t) ==
  LET colons == {i \in 1..Len(t) : t[i] = ":"}
      last == CHOOSE i \in colons : \A j \in colons : j <= i
  IN  IF colons = {} THEN "missing colon separator"
      ELSE IF last = 1 THEN "missing address before colon"
      ELSE IF last = Len(t) THEN "missing port after colon"
      ELSE IF ~AddressPartValid(t, last) THEN "invalid address part"
      ELSE "invalid port part"

\* C27: a failing IPEndpoint::Parse returns kParseError with the reason of
\* the first failing check, in the order missing colon, missing address,
\* missing port, invalid address, invalid port; ":" reports a missing
\* address, "x:" a missing port and "x:y" an invalid address.
C27_EndpointErrorReason ==
  (pc = "endpoint" /\ ~ep.ok) =>
    /\ ep.code = "kParseError"
    /\ ep.reason = ReasonOwed(text)
    /\ text = <<":">> => ep.reason = "missing address before colon"
    /\ text = <<"x", ":">> => ep.reason = "missing port after colon"
    /\ text = <<"x", ":", "y">> => ep.reason = "invalid address part"

C27_Witness ==
  /\ pc = "endpoint" /\ ~ep.ok
  /\ text = <<":">>
  /\ ep.reason = "missing address before colon"

\* C28: zone resolution precedence.  The scope id of a parsed address with
\* a zone suffix is the index of the interface named by the zone text when
\* there is one, and the decimal value of the zone text only when no
\* interface has that name: the zone "2" naming the interface of index 7
\* gives the scope id 7.
C28_ZonePrecedence ==
  (pc = "parsed" /\ addr.ok /\ Find(text, "%") # 0) =>
    LET zone == RemovePrefix(text, Find(text, "%"))
        named == {r \in os : r.name = zone}
    IN  /\ \A r \in named : GetScopeId(addr.value) = r.index
        /\ named = {} =>
             /\ zone # <<>> /\ \A i \in 1..Len(zone) : \E d \in 1..10 : DecimalChars[d] = zone[i]
             /\ GetScopeId(addr.value) = DecimalValue(zone, 10)
        /\ (zone = <<"2">> /\ [name |-> <<"2">>, index |-> 7] \in os) =>
             GetScopeId(addr.value) = 7

C28_Witness ==
  /\ pc = "parsed" /\ addr.ok
  /\ text = <<"f","e","8","0",":",":","1","%","2">>
  /\ [name |-> <<"2">>, index |-> 7] \in os
  /\ GetScopeId(addr.value) = 7

----------------------------------------------------------------------------
(* Further properties of the interface enumerator *)

\* Record r carries an address of family IPv4 or IPv6 and no netmask of
\* that family.
LacksNetmask(r) ==
  /\ r.ifa_addr.family \in {"AF_INET", "AF_INET6"}
  /\ r.ifa_netmask.family # r.ifa_addr.family

\* The address of the IPv4 or IPv6 record r as the entry holds it.
AddressOf(r) ==
  IF r.ifa_addr.family = "AF_INET"
    THEN [version |-> "kV4", bytes |-> r.ifa_addr.sin_addr, scope_id |-> 0]
    ELSE [version |-> "kV6", bytes |-> r.ifa_addr.sin6_addr,
          scope_id |-> r.ifa_addr.sin6_scope_id]

\* The completed rounds on records of the entry named n, since its creation,
\* whose record lacks a netmask.
LackingNetmask(n) ==
  {i \in 1..Len(Completed) :
     /\ AcceptedAt(n) # 0 /\ i >= AcceptedAt(n)
     /\ Completed[i].ifa_name = n /\ PassesFilter(Completed[i])
     /\ LacksNetmask(Completed[i])}

\* Entry holds the address of record r with prefix length 0.
HoldsWithZeroPrefix(entry, r) ==
  \E k \in 1..Len(entry.addresses) :
    /\ VisibleAddress(entry.addresses[k].address) = AddressOf(r)
    /\ entry.addresses[k].prefix_length = 0

\* C29 as claimed: every IPv4 or IPv6 record of a kept interface with no
\* netmask of its family is appended with prefix length 0, and the walk is
\* not ended on such a record.
C29_MissingNetmaskAppended ==
  /\ pc \in {"walk", "returned", "fatal"} =>
       \A e \in 1..Len(results) :
         \A i \in LackingNetmask(results[e].name) :
           HoldsWithZeroPrefix(results[e], Completed[i])
  /\ pc = "fatal" => ~LacksNetmask(interfaces[cur])

\* C29, amended: every IPv4 record, and every IPv6 record whose
\* deprecated-status query succeeded and reported not deprecated, of a kept
\* interface with no netmask of its family is appended with prefix length
\* 0, and the walk is not ended on a record with no netmask of its family.
C29_MissingNetmaskIsZero ==
  /\ pc \in {"walk", "returned", "fatal"} =>
       \A e \in 1..Len(results) :
         \A i \in LackingNetmask(results[e].name) :
           (Completed[i].ifa_addr.family = "AF_INET6" => Completed[i].in6_flags = "ok")
             => HoldsWithZeroPrefix(results[e], Completed[i])
  /\ pc = "fatal" => ~LacksNetmask(interfaces[cur])

C29_Witness ==
  /\ pc = "returned" /\ Len(interfaces) = 3 /\ Len(results) = 1
  /\ interfaces[1].ifa_addr.family = "AF_INET"
  /\ interfaces[1].ifa_netmask.family = "none"
  /\ interfaces[2].ifa_addr.family = "AF_INET"
  /\ interfaces[2].ifa_netmask.family = "AF_INET6"
  /\ interfaces[3].ifa_addr.family = "AF_INET6" /\ interfaces[3].in6_flags = "ok"
  /\ interfaces[3].ifa_netmask.family = "none"
  /\ Len(results[1].addresses) = 3
  /\ \A k \in 1..3 : results[1].addresses[k].prefix_length = 0

\* The completed rounds on records of the entry named n since its creation.
RoundsOf(n) ==
  {i \in 1..Len(Completed) :
     /\ i >= AcceptedAt(n)
     /\ Completed[i].ifa_name = n /\ PassesFilter(Completed[i])}

\* C30: the entry of a name exists from the record that passed the filter
\* and the classification on, whatever the address family of that record;
\* an interface whose records were all skipped afterwards has an entry with
\* no subnets, and the hardware address of an entry is six zero bytes until
\* a link-layer record of the name puts its own.
C30_CreatedBeforeFamily ==
  pc \in {"walk", "returned", "fatal"} =>
    \A w \in 1..Len(Walked) :
      LET n == Walked[w].ifa_name
          links == {i \in RoundsOf(n) : Completed[i].ifa_addr.family = "AF_LINK"}
          adding == {i \in RoundsOf(n) :
                       \/ Completed[i].ifa_addr.family = "AF_INET"
                       \/ /\ Completed[i].ifa_addr.family = "AF_INET6"
                          /\ Completed[i].in6_flags = "ok"}
      IN  AcceptedAt(n) # 0 =>
            \E e \in 1..Len(results) :
              /\ results[e].name = n
              /\ adding = {} => results[e].addresses = <<>>
              /\ links = {} => results[e].hardware_address = <<0, 0, 0, 0, 0, 0>>
              /\ \A i \in links :
                   (\A j \in links : j <= i) =>
                     results[e].hardware_address = Completed[i].ifa_addr.lladdr

C30_Witness ==
  /\ pc = "returned" /\ Len(results) = 1
  /\ results[1].addresses = <<>>
  /\ results[1].hardware_address = <<0, 0, 0, 0, 0, 0>>
  /\ Len(interfaces) = 3
  /\ \A i \in 1..3 : PassesFilter(interfaces[i])
  /\ \E i \in 1..3 : /\ interfaces[i].ifa_addr.family = "AF_INET6"
                      /\ interfaces[i].in6_flags = "deprecated"
  /\ \E i \in 1..3 : /\ interfaces[i].ifa_addr.family = "AF_INET6"
                      /\ interfaces[i].in6_flags = "failed"
  /\ \E i \in 1..3 : interfaces[i].ifa_addr.family = "AF_UNIX"

====
